---- MODULE Spec2Model ----
(***************************************************************************)
(* Research_Analyser: the analysis pipeline (ResearchAnalyser.analyse and  *)
(* the UI's background worker), the diagram generator with its local       *)
(* fallback, and the review scoring function.                              *)
(*                                                                         *)
(* A behaviour of Spec is one call of one entry point:                     *)
(*   "analyse"  - ResearchAnalyser.analyse           (analyser.py)         *)
(*   "worker"   - _analysis_worker                   (app.py)              *)
(*   "generate" - DiagramGenerator.generate          (diagram_generator.py)*)
(* The other specifications each run one function or component on inputs   *)
(* drawn in the initial state:                                             *)
(*   SpecScore, SpecInterpret - compute_final_score, interpret_score       *)
(*   SpecReview     - PaperReviewer.review and its workflow (reviewer.py)  *)
(*   SpecEquations, SpecBlocks, SpecSections, SpecReferences, SpecScan     *)
(*                  - the extractors of OCREngine (ocr_engine.py)          *)
(*   SpecInput      - detect_source_type and fetch_url (input_handler.py)  *)
(*   SpecSave       - ReportGenerator.save_all (report_generator.py)       *)
(*   SpecForward    - PaperContentRM.forward (storm_reporter.py)           *)
(*   SpecSummary    - the two summary extractors (analyser.py)             *)
(*   SpecApi        - the job store of the HTTP API (api.py)               *)
(*                                                                         *)
(* Collaborators (input resolution, OCR, the diagram service, the review   *)
(* workflow, STORM, TTS, a progress callback) are the environment: each    *)
(* call returns or raises, chosen nondeterministically.  Writes to the     *)
(* local output directory succeed.                                         *)
(***************************************************************************)
EXTENDS Integers, Sequences, FiniteSets, TLC

\* ---------------------------------------------------------------- bounds

\* Longest list of requested diagram types given to DiagramGenerator.generate.
MaxTypes == 2

\* Dimension scores handed to compute_final_score are the fractions n / Den
\* with n in -MaxNum .. MaxNum (half points from -6.0 to 6.0).  Den is
\* 2 * HalfSteps, so that the neutral default 2.5 is always among them.
HalfSteps == 1

Den == 2 * HalfSteps

MaxNum == 12

\* Scores handed to interpret_score directly are the eighths k / 8 with k in
\* 0 .. MaxEighths (0.0 to 12.0, every band boundary among them).
MaxEighths == 96

\* Most equation matches in the OCR markdown, and in the TeX source sidecar.
MaxMatches == 3

MaxTexMatches == 1

\* Most blocks in the OCR block list, and most lines of the OCR markdown.
MaxBlocks == 2

MaxLines == 3

\* Most lines of a text given to parse_sections, and its deepest heading.
MaxSectionLines == 4

MaxLevel == 3

\* Most comma-separated parts in the Scoring node's LLM response.
MaxParts == 3

\* Largest max_retries fetch_url is called with (its default is 3).
MaxRetries == 3

\* Most lines in the text given to _extract_references.
MaxReferenceLines == 4

\* Largest k of the retrieval module and longest list of queries given to forward.
MaxK == 2

MaxQueries == 2

\* Most sections in the content given to the summary extractors.
MaxSummarySections == 3

\* Most jobs posted to the API in one behaviour.
MaxJobs == 2

\* Most lines in the markdown given to the table scanner's loop (two tables
\* need seven).
MaxScanLines == 7

\* ---------------------------------------------------------------- values

\* Python's None for an optional object.
None == [none |-> TRUE]

\* The diagram types DiagramGenerator.generate dispatches on; anything else
\* falls to the default case.
KnownTypes == {"methodology", "architecture", "results"}

\* Type names a caller may request ("flowchart" stands for any unrecognized one).
TypeNames == KnownTypes \cup {"flowchart"}

\* str(exc) of an exception raised by the external diagram service: an
\* exception constructed without arguments (asyncio.TimeoutError()) has "".
ExcTexts == {"", "quota exceeded"}

Range(seq) == {seq[i] : i \in 1..Len(seq)}

RECURSIVE SeqsUpTo(_, _)
SeqsUpTo(S, n) ==
    IF n = 0 THEN {<<>>}
    ELSE LET shorter == SeqsUpTo(S, n - 1)
         IN  shorter \cup {Append(s, x) : s \in {t \in shorter : Len(t) = n - 1}, x \in S}

TypeLists == SeqsUpTo(TypeNames, MaxTypes)

\* ------------------------------------------------ progress callbacks

\* What one invocation of a caller-supplied callback does: there is none
\* (on_progress is None), it returns, or it raises.
CallbackOutcomes(has) == IF has THEN {"ok", "raise"} ELSE {"absent"}

\* _progress without its try/except: the callback's exception leaves it.
ProgressDropsGuard(log, message, cb) ==
    IF cb = "ok" THEN [log |-> Append(log, message), exc |-> FALSE]
    ELSE [log |-> log, exc |-> cb = "raise"]

\* ResearchAnalyser.analyse._progress: hand message to on_progress and swallow
\* whatever it raises.  log is what the callback has received so far; exc says
\* whether an exception leaves _progress.
Progress(log, message, cb) ==
    IF cb = "ok" THEN [log |-> Append(log, message), exc |-> FALSE]
    ELSE [log |-> log, exc |-> FALSE]

\* Consecutive _progress calls; the first exception that leaves one ends them.
RECURSIVE ProgressAll(_, _, _)
ProgressAll(log, messages, cbs) ==
    IF messages = <<>> THEN [log |-> log, exc |-> FALSE]
    ELSE LET p == Progress(log, Head(messages), Head(cbs))
         IN  IF p.exc THEN p ELSE ProgressAll(p.log, Tail(messages), Tail(cbs))

\* _report without its try/except.
ReportDropsGuard(seen, dtype, status, cb) ==
    IF cb = "ok" THEN [seen |-> [seen EXCEPT ![dtype] = status], exc |-> FALSE]
    ELSE [seen |-> seen, exc |-> cb = "raise"]

\* DiagramGenerator.generate._report: the same guard around on_progress(dtype,
\* status).  seen maps a diagram type to the last status the callback received.
Report(seen, dtype, status, cb) ==
    IF cb = "ok" THEN [seen |-> [seen EXCEPT ![dtype] = status], exc |-> FALSE]
    ELSE [seen |-> seen, exc |-> FALSE]

\* ------------------------------------------------ diagram generator

\* Python's None for an optional string.
NoText == "<None>"

\* GeneratedDiagram.error of a diagram that is not a fallback.
NoError == NoText

\* One output file name for every diagram type.
OutputPathShared(diagram_type) == <<"diagrams", "diagram", "png">>

\* self.output_dir / f"{diagram_type}.{self.output_format}"
OutputPath(diagram_type) == <<"diagrams", diagram_type, "png">>

\* The per-type subdirectory _make_pipeline hands to the diagram service.
SubDir(diagram_type) == <<"diagrams", diagram_type>>

\* What the diagram service does for one call of _run_pipeline:
\*   unavailable - _make_pipeline raises DiagramError (package or API key missing)
\*   image       - pipeline.generate returns and result.image_path exists
\*   no_file     - pipeline.generate returns and result.image_path does not exist
\*   raise       - pipeline.generate raises an exception whose str() is text
ServiceOutcomes ==
    {[kind |-> k, text |-> ""] : k \in {"unavailable", "image", "no_file"}}
    \cup {[kind |-> "raise", text |-> t] : t \in ExcTexts}

\* str(exc) of the exception _run_pipeline catches.
ErrorText(outcome) ==
    CASE outcome.kind = "unavailable" -> "GOOGLE_API_KEY is not set."
      [] outcome.kind = "no_file"     -> "PaperBanana output file not found"
      [] OTHER                        -> outcome.text

GeneratedDiagram(diagram_type, is_fallback, error) ==
    [diagram_type |-> diagram_type,
     image_path   |-> OutputPath(diagram_type),
     is_fallback  |-> is_fallback,
     error        |-> error]

\* DiagramGenerator._generate_fallback_diagram: draws the local diagram, saves it
\* at the standard path and returns it flagged as a fallback with the error text.
GenerateFallbackDiagram(diagram_type, error) ==
    [diagram |-> GeneratedDiagram(diagram_type, TRUE, error),
     written |-> {OutputPath(diagram_type)},
     fallback |-> TRUE]

\* DiagramGenerator._run_pipeline: the service's image copied to the standard
\* path, or the local fallback on any exception.
RunPipeline(diagram_type, outcome) ==
    IF outcome.kind = "image"
    THEN [diagram |-> GeneratedDiagram(diagram_type, FALSE, NoError),
          written |-> {SubDir(diagram_type), OutputPath(diagram_type)},
          fallback |-> FALSE]
    ELSE GenerateFallbackDiagram(diagram_type, ErrorText(outcome))

\* A match statement whose default case also builds a diagram.
IsKnownTypeAny(dtype) == TRUE

\* The match statement of _run_one: is dtype one of the three cases?
IsKnownType(dtype) == dtype \in KnownTypes

\* The result loop of generate: exceptions and None are left out.
RECURSIVE CollectDiagrams(_)
CollectDiagrams(task_results) ==
    IF task_results = <<>> THEN <<>>
    ELSE LET r == Head(task_results)
             rest == CollectDiagrams(Tail(task_results))
         IN  IF r.kind = "diagram" THEN <<r.diagram>> \o rest ELSE rest

\* What one _run_one task leaves in the gathered list.
TaskResult(dtype, outcome) ==
    IF IsKnownType(dtype)
    THEN [kind |-> "diagram", diagram |-> RunPipeline(dtype, outcome).diagram]
    ELSE [kind |-> "none", diagram |-> None]

\* The list generate returns for diagram_types when the service behaves as
\* outcomes[i] for the i-th requested type.
GenerateResult(diagram_types, outcomes) ==
    CollectDiagrams([i \in 1..Len(diagram_types) |-> TaskResult(diagram_types[i], outcomes[i])])

\* The files generate leaves in the output directory.
GenerateWrites(diagram_types, outcomes) ==
    UNION {IF IsKnownType(diagram_types[i])
           THEN RunPipeline(diagram_types[i], outcomes[i]).written
           ELSE {} : i \in 1..Len(diagram_types)}

\* ------------------------------------------------ review scoring

\* The calibration constants of reviewer.py, in units of 1/Scale.
Scale == 10000

INTERCEPT == -3057

WEIGHT_SOUNDNESS == 7134

WEIGHT_PRESENTATION == 4242

WEIGHT_CONTRIBUTION == 10588

\* A score x as a number of 1/(Scale * Den) units.
Units(x) == x * Scale * Den

Min2(a, b) == IF b < a THEN b ELSE a

Max2(a, b) == IF b > a THEN b ELSE a

\* The linear formula with the weights of soundness and contribution exchanged.
RawScoreWeightsSwapped(soundness, presentation, contribution) ==
    Den * INTERCEPT + WEIGHT_CONTRIBUTION * soundness
    + WEIGHT_PRESENTATION * presentation + WEIGHT_SOUNDNESS * contribution

\* The linear formula before the clamp, for dimension scores soundness / Den,
\* presentation / Den and contribution / Den, in 1/(Scale * Den) units.
RawScore(soundness, presentation, contribution) ==
    Den * INTERCEPT
    + WEIGHT_SOUNDNESS * soundness
    + WEIGHT_PRESENTATION * presentation
    + WEIGHT_CONTRIBUTION * contribution

\* compute_final_score without the clamp.
compute_final_score_unclamped(soundness, presentation, contribution) ==
    RawScore(soundness, presentation, contribution)

\* compute_final_score: max(1.0, min(10.0, raw)).
compute_final_score(soundness, presentation, contribution) ==
    Max2(Units(1), Min2(Units(10), RawScore(soundness, presentation, contribution)))

\* SCORE_LABELS, in the order of the dictionary: (low, high) -> label.
SCORE_LABELS ==
    << [low |-> Units(1), high |-> Units(3),  label |-> "Strong Reject"],
       [low |-> Units(3), high |-> Units(4),  label |-> "Reject"],
       [low |-> Units(4), high |-> Units(5),  label |-> "Weak Reject"],
       [low |-> Units(5), high |-> Units(6),  label |-> "Borderline"],
       [low |-> Units(6), high |-> Units(7),  label |-> "Weak Accept"],
       [low |-> Units(7), high |-> Units(8),  label |-> "Accept"],
       [low |-> Units(8), high |-> Units(10), label |-> "Strong Accept"] >>

\* interpret_score whose bands are closed above and open below.
interpret_score_upper_closed(score) ==
    LET hits == {i \in DOMAIN SCORE_LABELS :
                     SCORE_LABELS[i].low < score /\ score <= SCORE_LABELS[i].high}
    IN  IF hits # {}
        THEN SCORE_LABELS[CHOOSE i \in hits : \A j \in hits : i <= j].label
        ELSE IF score >= Units(8) THEN "Strong Accept" ELSE "Unknown"

\* interpret_score: the label of the first band with low <= score < high;
\* past the bands, "Strong Accept" from 8.0 up and "Unknown" otherwise.
interpret_score(score) ==
    LET hits == {i \in DOMAIN SCORE_LABELS :
                     SCORE_LABELS[i].low <= score /\ score < SCORE_LABELS[i].high}
    IN  IF hits # {}
        THEN SCORE_LABELS[CHOOSE i \in hits : \A j \in hits : i <= j].label
        ELSE IF score >= Units(8) THEN "Strong Accept" ELSE "Unknown"

\* The PeerReview that PaperReviewer.review builds from the workflow's scores.
PeerReview(s, p, c) ==
    [overall_score |-> compute_final_score(s, p, c),
     dimensions    |-> [soundness |-> s, presentation |-> p, contribution |-> c]]

\* ------------------------------------------------ state

VARIABLES
    entry,            \* the entry point this behaviour runs
    has_callback,     \* on_progress was supplied by the caller
    pc,               \* where the entry point's coroutine stands
    cb_raised,        \* some callback invocation has raised
    files,            \* paths written under the output directory
    \* ---- ResearchAnalyser.analyse / _analysis_worker
    options,          \* AnalysisOptions
    storm_enabled,    \* config.storm.enabled
    env,              \* what each collaborator did: "none", "ok", "empty", "raise"
    branch,           \* the two gathered coroutines: "none", "running", "returned", "raised"
    branch_result,    \* what each of them left in the gathered list
    diagrams,         \* local variable diagrams
    review,           \* local variable review
    report,           \* the AnalysisReport, once assembled
    assembled,        \* the report as it was when save_all ran
    persisted,        \* metadata.json as save_all wrote it
    stages,           \* pipeline stages in the order they were started
    cb_log,           \* messages on_progress has received
    exc,              \* the exception that left analyse ("none" if none)
    returned,         \* the report analyse returned
    run_state,        \* the worker's _rs dictionary
    \* ---- DiagramGenerator.generate
    diagram_types,    \* the requested types
    task,             \* each _run_one task: "created", "awaiting", "done"
    task_result,      \* what each task left in the gathered list
    warned,           \* positions for which "Unknown diagram type" was logged
    fallback_calls,   \* positions for which _generate_fallback_diagram ran
    diagram_progress, \* last status on_progress received, per type
    generated,        \* the list generate returned
    \* ---- reviewer.py, the scoring functions
    dimension_scores, \* the arguments of compute_final_score (numerators over Den)
    final_score,      \* its result, once computed
    score,            \* the argument of interpret_score
    decision,         \* the label it returned
    \* ---- ocr_engine.py, equations
    markdown_text,    \* the OCR markdown, as the sequence of its equation matches
    tex_source_text,  \* the .source.tex sidecar likewise, None when there is none
    equations,        \* extract_equations(markdown_text), once computed
    document_equations, \* ExtractedContent.equations, once extract has built it
    \* ---- ocr_engine.py, tables and figures
    blocks,           \* the OCR block list: the type of each block
    markdown_lines,   \* the OCR markdown as its lines, each reduced to its kind
    tables,           \* extract_tables(blocks, markdown_text), once computed
    figures,          \* extract_figures(blocks, markdown_text), once computed
    \* ---- ocr_engine.py, sections
    section_text,     \* the markdown given to parse_sections, as its lines
    sections,         \* parse_sections(markdown_text), once computed
    \* ---- reviewer.py, PaperReviewer.review and its workflow
    wf_pc,            \* review(): "start", "running", "done", "raised"
    wf_node,          \* the workflow node to run next, "END" after the last
    wf_state,         \* the ReviewState dictionary handed from node to node
    wf_trace,         \* the nodes run so far, each with the state it read and returned
    wf_response,      \* the Scoring node's LLM response, split at commas
    wf_result,        \* what review() returned or raised
    \* ---- input_handler.py
    input_call,       \* the InputHandler method this behaviour calls
    source,           \* detect_source_type's argument, by what the matchers see
    source_type,      \* its result: a SourceType or InputError
    url,              \* fetch_url's arguments
    filename,
    max_retries,
    fetch_pc,         \* fetch_url: "start", "loop", "done", "raised"
    attempt,          \* the loop variable of fetch_url
    http_log,         \* the outcome of each session.get so far
    fetch_result,     \* the path fetch_url returned or the exception it raised
    downloads,        \* the files fetch_url has written under temp_dir
    \* ---- ocr_engine.py, references
    reference_text,   \* the text given to _extract_references, as its lines
    references,       \* _extract_references(text), once computed
    \* ---- report_generator.py, save_all
    save_report,      \* the AnalysisReport given to save_all
    save_files,       \* the files save_all wrote, each with the text written
    \* ---- storm_reporter.py, PaperContentRM.forward
    rm_k,             \* self.k of the retrieval module
    query_or_queries, \* the first argument of forward
    exclude_urls,     \* its second argument
    forward_results,  \* the list forward returned
    \* ---- analyser.py, the summary cascade
    summary_call,     \* which of the two summary extractors is called
    summary_content,  \* the ExtractedContent it is given, by what the tiers test
    summary,          \* the summary it returned
    \* ---- api.py, the job store
    jobs,             \* the in-memory job store: per job id its entry, None before the POST
    job_task,         \* the background task of each job: "none", "created", "awaiting", "ended"
    job_response,     \* what the last GET returned
    \* ---- ocr_engine.py, the loop of _extract_tables_from_markdown
    scan_pc,          \* the scanner: "idle", "loop", "done"
    scan_lines,       \* lines, each reduced to its kind
    scan_i,           \* the line index i (the first line is 1)
    scan_counter,     \* table_counter
    scan_tables,      \* tables
    scan_iterations,  \* iterations of the outer loop so far
    scan_examined     \* per line, how often it was appended to a table_lines

shared_vars == <<entry, has_callback, pc, cb_raised, files>>

orch_vars == <<options, storm_enabled, env, branch, branch_result, diagrams, review,
               report, assembled, persisted, stages, cb_log, exc, returned, run_state>>

gen_vars == <<diagram_types, task, task_result, warned, fallback_calls,
              diagram_progress, generated>>

\* The variables of the pure functions, which the pipeline leaves alone.
score_vars == <<dimension_scores, final_score>>

interpret_vars == <<score, decision>>

equation_vars == <<markdown_text, tex_source_text, equations, document_equations>>

block_vars == <<blocks, markdown_lines, tables, figures>>

section_vars == <<section_text, sections>>

review_vars == <<wf_pc, wf_node, wf_state, wf_trace, wf_response, wf_result>>

input_vars == <<input_call, source, source_type, url, filename, max_retries,
                fetch_pc, attempt, http_log, fetch_result, downloads>>

reference_vars == <<reference_text, references>>

save_vars == <<save_report, save_files>>

forward_vars == <<rm_k, query_or_queries, exclude_urls, forward_results>>

summary_vars == <<summary_call, summary_content, summary>>

api_vars == <<jobs, job_task, job_response>>

scan_vars == <<scan_pc, scan_lines, scan_i, scan_counter, scan_tables, scan_iterations, scan_examined>>

pure_vars == <<score_vars, interpret_vars, equation_vars, block_vars, section_vars,
               review_vars, input_vars,
               reference_vars,
               save_vars,
               forward_vars,
               summary_vars,
               api_vars,
               scan_vars>>

pipeline_vars == <<shared_vars, orch_vars, gen_vars>>

vars == <<pipeline_vars, pure_vars>>

\* ------------------------------------------------ orchestrator: values

StageNames == {"detect", "resolve", "extract", "diagrams", "review", "storm", "audio"}

\* The lists of diagram types the orchestrator is run with.
RequestedTypeLists == {<<"methodology">>, <<"flowchart", "results">>}

AnalysisOptions ==
    [generate_diagrams     : BOOLEAN,
     generate_review       : BOOLEAN,
     generate_storm_report : BOOLEAN,
     generate_audio        : BOOLEAN,
     diagram_types         : RequestedTypeLists]

DefaultOptions ==
    [generate_diagrams |-> TRUE, generate_review |-> TRUE,
     generate_storm_report |-> FALSE, generate_audio |-> FALSE,
     diagram_types |-> <<"methodology">>]

\* The dimension scores the review workflow may end with (numerators over Den).
WorkflowScores == {<<2 * Den, 3 * Den, 3 * Den>>, <<4 * Den, 4 * Den, 4 * Den>>}

\* The article STORMReporter.generate may return.
Articles == {"", "# Article"}

\* gather with the flag off: the first exception of a task is raised to the
\* awaiting caller.
return_exceptions_off == FALSE

\* asyncio.gather(*tasks, return_exceptions=True): a task's exception becomes
\* its entry in the result list.
return_exceptions == TRUE

\* The STORM stage without a handler.
StormCatchesNever(e) == FALSE

\* except Exception around the STORM stage: every exception e is caught.
StormCatches(e) == TRUE

\* The audio stage without a handler.
AudioCatchesNever(e) == FALSE

\* except Exception around the audio stage: every exception e is caught.
AudioCatches(e) == TRUE

\* The guard of the STORM stage, without the configuration switch.
StormRequestedIgnoresConfig == options.generate_storm_report

\* if options.generate_storm_report and self.config.storm.enabled
StormRequested == options.generate_storm_report /\ storm_enabled

\* The entries of a gathered result list.
Pending == [kind |-> "pending"]

ExceptionResult(name) == [kind |-> "exception", name |-> name]

ListResult(items) == [kind |-> "list", items |-> items]

ObjectResult(value) == [kind |-> "object", value |-> value]

\* tasks, in the order they were appended: diagrams first, then review.
GatheredResults ==
    (IF options.generate_diagrams THEN <<branch_result.diagrams>> ELSE <<>>)
    \o (IF options.generate_review THEN <<branch_result.review>> ELSE <<>>)

\* gather raises to its caller: never with return_exceptions=True.
GatherRaises(results) ==
    ~return_exceptions /\ \E i \in 1..Len(results) : results[i].kind = "exception"

\* gather has an answer for its caller.
GatherReady ==
    \/ \A b \in {"diagrams", "review"} : branch[b] # "running"
    \/ GatherRaises(GatheredResults)

\* The loop over the gathered results: an exception is logged, a list is the
\* diagrams, anything else is the review.
RECURSIVE Dispatch(_, _)
Dispatch(results, acc) ==
    IF results = <<>> THEN acc
    ELSE LET r == Head(results)
         IN  Dispatch(Tail(results),
                      IF r.kind = "exception" THEN acc
                      ELSE IF r.kind = "list" THEN [acc EXCEPT !.diagrams = r.items]
                      ELSE [acc EXCEPT !.review = r.value])

NothingYet == [diagrams |-> <<>>, review |-> None]

\* AnalysisReport(paper_input=..., review=..., diagrams=..., ...); storm_report
\* starts as None.
AnalysisReport(opts, rev, diags) ==
    [paper_input  |-> [analysis_options |-> opts],
     review       |-> rev,
     diagrams     |-> diags,
     storm_report |-> NoText]

\* The metadata dictionary ReportGenerator.save_all writes to metadata.json
\* (the fields that depend on the fan-out).
Metadata(rep) ==
    [num_diagrams |-> Len(rep.diagrams),
     review_score |-> IF rep.review # None
                      THEN [value |-> rep.review.overall_score]
                      ELSE None]

\* The files ReportGenerator.save_all writes.
SaveAllWrites(rep) ==
    {<<"report.md">>, <<"key_points.md">>, <<"spec_output.md">>, <<"report.html">>,
     <<"extracted", "full_text.md">>, <<"extracted", "equations.json">>,
     <<"extracted", "tables.json">>, <<"metadata.json">>}
    \cup (IF rep.review # None THEN {<<"review.md">>} ELSE {})

\* The worker's _rs dictionary as created.
InitialRunState ==
    [progress |-> <<>>, partial |-> FALSE, report |-> None, error |-> NoText, done |-> FALSE]

\* A _push that inserts the pair at the head of the log.
PushFront(log, pct, msg) == <<[pct |-> pct, msg |-> msg]>> \o log

\* _push: append one (pct, msg) pair to _state["progress"].
Push(log, pct, msg) == Append(log, [pct |-> pct, msg |-> msg])

RECURSIVE PushAll(_, _)
PushAll(log, events) ==
    IF events = <<>> THEN log
    ELSE PushAll(Push(log, Head(events)[1], Head(events)[2]), Tail(events))

\* ------------------------------------------------ initial states

NoProgress == [t \in TypeNames |-> NoText]

OrchIdle ==
    /\ options = DefaultOptions
    /\ storm_enabled = FALSE

GenIdle ==
    /\ diagram_types = <<>>

\* Everything the entry points start from, whatever their inputs.
PipelineFresh ==
    /\ pc = "start"
    /\ cb_raised = FALSE
    /\ files = {}
    /\ env = [s \in StageNames |-> "none"]
    /\ branch = [diagrams |-> "none", review |-> "none"]
    /\ branch_result = [diagrams |-> Pending, review |-> Pending]
    /\ diagrams = <<>>
    /\ review = None
    /\ report = None
    /\ assembled = None
    /\ persisted = None
    /\ stages = <<>>
    /\ cb_log = <<>>
    /\ exc = "none"
    /\ returned = None
    /\ run_state = InitialRunState
    /\ task = [i \in 1..Len(diagram_types) |-> "created"]
    /\ task_result = [i \in 1..Len(diagram_types) |-> Pending]
    /\ warned = {}
    /\ fallback_calls = {}
    /\ diagram_progress = NoProgress
    /\ generated = None

\* No entry point of the pipeline runs.
PipelineIdle ==
    /\ entry = "none"
    /\ has_callback = FALSE
    /\ OrchIdle
    /\ GenIdle
    /\ PipelineFresh

\* compute_final_score is not called.
ScoreIdle ==
    /\ dimension_scores = <<0, 0, 0>>
    /\ final_score = None

\* interpret_score is not called.
InterpretIdle ==
    /\ score = None
    /\ decision = None

\* OCREngine.extract is not post-processing a document.
EquationsIdle ==
    /\ markdown_text = <<>>
    /\ tex_source_text = None
    /\ equations = None
    /\ document_equations = None

\* Neither extract_tables nor extract_figures is called.
BlocksIdle ==
    /\ blocks = <<>>
    /\ markdown_lines = <<>>
    /\ tables = None
    /\ figures = None

\* parse_sections is not called.
SectionsIdle ==
    /\ section_text = <<>>
    /\ sections = None

\* initial_state of PaperReviewer.review: the lists empty, no scores, no text.
InitialReviewState ==
    [title          |-> "content.title",
     search_queries |-> "initial",
     related_works  |-> <<>>,
     strengths      |-> "initial",
     weaknesses     |-> "initial",
     scores         |-> None,
     review_text    |-> "initial"]

\* PaperReviewer.review is not called.
ReviewIdle ==
    /\ wf_pc = "idle"
    /\ wf_node = "none"
    /\ wf_state = InitialReviewState
    /\ wf_trace = <<>>
    /\ wf_response = None
    /\ wf_result = None

\* A source none of the matchers of detect_source_type accepts.
NoSource ==
    [local_pdf |-> FALSE, arxiv_abs |-> FALSE, arxiv_pdf |-> FALSE,
     arxiv_bare |-> FALSE, doi |-> FALSE, http |-> FALSE]

\* No method of InputHandler is called.
InputIdle ==
    /\ input_call = "none"
    /\ source = NoSource
    /\ source_type = None
    /\ url = <<>>
    /\ filename = None
    /\ max_retries = 0
    /\ fetch_pc = "idle"
    /\ attempt = 0
    /\ http_log = <<>>
    /\ fetch_result = None
    /\ downloads = {}

\* extract_references is not called.
ReferencesIdle ==
    /\ reference_text = <<>>
    /\ references = None

\* save_all is not called.
SaveIdle ==
    /\ save_report = None
    /\ save_files = None

\* forward is not called.
ForwardIdle ==
    /\ rm_k = 0
    /\ query_or_queries = None
    /\ exclude_urls = None
    /\ forward_results = None

\* summary is not called.
SummaryIdle ==
    /\ summary_call = "none"
    /\ summary_content = None
    /\ summary = None

\* The uuid4 job ids, each drawn once.
JobIds == 1..MaxJobs

\* api is not called.
ApiIdle ==
    /\ jobs = [j \in JobIds |-> None]
    /\ job_task = [j \in JobIds |-> "none"]
    /\ job_response = None

\* scan_tables is not called.
ScanIdle ==
    /\ scan_pc = "idle"
    /\ scan_lines = <<>>
    /\ scan_i = 1
    /\ scan_counter = 0
    /\ scan_tables = <<>>
    /\ scan_iterations = 0
    /\ scan_examined = <<>>

\* No pure function other than f is called.
PureIdleExcept(f) ==
    /\ IF f = "compute_final_score" THEN TRUE ELSE ScoreIdle
    /\ IF f = "interpret_score" THEN TRUE ELSE InterpretIdle
    /\ IF f = "extract_equations" THEN TRUE ELSE EquationsIdle
    /\ IF f = "extract_tables" THEN TRUE ELSE BlocksIdle
    /\ IF f = "parse_sections" THEN TRUE ELSE SectionsIdle
    /\ IF f = "review" THEN TRUE ELSE ReviewIdle
    /\ IF f = "input_handler" THEN TRUE ELSE InputIdle
    /\ IF f = "extract_references" THEN TRUE ELSE ReferencesIdle
    /\ IF f = "save_all" THEN TRUE ELSE SaveIdle
    /\ IF f = "forward" THEN TRUE ELSE ForwardIdle
    /\ IF f = "summary" THEN TRUE ELSE SummaryIdle
    /\ IF f = "api" THEN TRUE ELSE ApiIdle
    /\ IF f = "scan_tables" THEN TRUE ELSE ScanIdle

\* A call of f leaves the pipeline and the other functions' variables alone.
Frame(f) ==
    /\ UNCHANGED pipeline_vars
    /\ IF f = "compute_final_score" THEN TRUE ELSE UNCHANGED score_vars
    /\ IF f = "interpret_score" THEN TRUE ELSE UNCHANGED interpret_vars
    /\ IF f = "extract_equations" THEN TRUE ELSE UNCHANGED equation_vars
    /\ IF f = "extract_tables" THEN TRUE ELSE UNCHANGED block_vars
    /\ IF f = "parse_sections" THEN TRUE ELSE UNCHANGED section_vars
    /\ IF f = "review" THEN TRUE ELSE UNCHANGED review_vars
    /\ IF f = "input_handler" THEN TRUE ELSE UNCHANGED input_vars
    /\ IF f = "extract_references" THEN TRUE ELSE UNCHANGED reference_vars
    /\ IF f = "save_all" THEN TRUE ELSE UNCHANGED save_vars
    /\ IF f = "forward" THEN TRUE ELSE UNCHANGED forward_vars
    /\ IF f = "summary" THEN TRUE ELSE UNCHANGED summary_vars
    /\ IF f = "api" THEN TRUE ELSE UNCHANGED api_vars
    /\ IF f = "scan_tables" THEN TRUE ELSE UNCHANGED scan_vars

\* No pure function is applied.
PureIdle == PureIdleExcept("none")

Init ==
    /\ entry \in {"analyse", "worker", "generate"}
    /\ IF entry = "generate"
       THEN /\ OrchIdle
            /\ diagram_types \in TypeLists
            /\ has_callback \in BOOLEAN
       ELSE /\ options \in AnalysisOptions
            /\ storm_enabled \in BOOLEAN
            /\ GenIdle
            \* the worker calls the stages itself and takes no callback
            /\ has_callback \in (IF entry = "analyse" THEN BOOLEAN ELSE {FALSE})
    /\ PipelineFresh
    /\ PureIdle

\* ------------------------------------------------ ResearchAnalyser.analyse

AnyRaise(cbs) == \E i \in DOMAIN cbs : cbs[i] = "raise"

\* Step 1 and the first progress message: detect the source type.
A_Detect ==
    /\ entry = "analyse" /\ pc = "start"
    /\ \E outcome \in {"ok", "raise"}, cb \in CallbackOutcomes(has_callback) :
        /\ env' = [env EXCEPT !.detect = outcome]
        /\ IF outcome = "raise"
           THEN /\ pc' = "raised"
                /\ exc' = "InputError"
                /\ UNCHANGED <<cb_log, cb_raised>>
           ELSE LET p == Progress(cb_log, "Fetching PDF", cb)
                IN  /\ cb_log' = p.log
                    /\ cb_raised' = (cb_raised \/ cb = "raise")
                    /\ pc' = IF p.exc THEN "raised" ELSE "resolve"
                    /\ exc' = IF p.exc THEN "CallbackError" ELSE exc
    /\ UNCHANGED <<entry, has_callback, files, options, storm_enabled, branch,
                   branch_result, diagrams, review, report, assembled, persisted,
                   stages, returned, run_state, gen_vars, pure_vars>>

\* Step 2: await input_handler.resolve; an exception leaves analyse.
A_Resolve ==
    /\ entry = "analyse" /\ pc = "resolve"
    /\ stages' = Append(stages, "resolve")
    /\ \E outcome \in {"ok", "raise"}, cbs \in [1..2 -> CallbackOutcomes(has_callback)] :
        /\ env' = [env EXCEPT !.resolve = outcome]
        /\ IF outcome = "raise"
           THEN /\ pc' = "raised"
                /\ exc' = "InputError"
                /\ UNCHANGED <<cb_log, cb_raised>>
           ELSE LET p == ProgressAll(cb_log, <<"PDF ready", "Extracting content (OCR)">>, cbs)
                IN  /\ cb_log' = p.log
                    /\ cb_raised' = (cb_raised \/ AnyRaise(cbs))
                    /\ pc' = IF p.exc THEN "raised" ELSE "extract"
                    /\ exc' = IF p.exc THEN "CallbackError" ELSE exc
    /\ UNCHANGED <<entry, has_callback, files, options, storm_enabled, branch,
                   branch_result, diagrams, review, report, assembled, persisted,
                   returned, run_state, gen_vars, pure_vars>>

\* Step 3 with the extraction failure swallowed: the run goes on to the fan-out.
A_ExtractBestEffort ==
    /\ entry = "analyse" /\ pc = "extract"
    /\ stages' = Append(stages, "extract")
    /\ \E outcome \in {"ok", "raise"}, cb \in CallbackOutcomes(has_callback) :
        LET p == Progress(cb_log, "Extracted", cb)
        IN  /\ env' = [env EXCEPT !.extract = outcome]
            /\ cb_log' = p.log
            /\ cb_raised' = (cb_raised \/ cb = "raise")
            /\ pc' = "fanout"
            /\ exc' = exc
    /\ UNCHANGED <<entry, has_callback, files, options, storm_enabled, branch,
                   branch_result, diagrams, review, report, assembled, persisted,
                   returned, run_state, gen_vars, pure_vars>>

\* Step 3: await ocr_engine.extract; an exception leaves analyse.
A_Extract ==
    /\ entry = "analyse" /\ pc = "extract"
    /\ stages' = Append(stages, "extract")
    /\ \E outcome \in {"ok", "raise"}, cb \in CallbackOutcomes(has_callback) :
        /\ env' = [env EXCEPT !.extract = outcome]
        /\ IF outcome = "raise"
           THEN /\ pc' = "raised"
                /\ exc' = "ExtractionError"
                /\ UNCHANGED <<cb_log, cb_raised>>
           ELSE LET p == Progress(cb_log, "Extracted", cb)
                IN  /\ cb_log' = p.log
                    /\ cb_raised' = (cb_raised \/ cb = "raise")
                    /\ pc' = IF p.exc THEN "raised" ELSE "fanout"
                    /\ exc' = IF p.exc THEN "CallbackError" ELSE exc
    /\ UNCHANGED <<entry, has_callback, files, options, storm_enabled, branch,
                   branch_result, diagrams, review, report, assembled, persisted,
                   returned, run_state, gen_vars, pure_vars>>

\* The coroutines the options ask for, started in the order they were appended.
Launched ==
    [diagrams |-> IF options.generate_diagrams THEN "running" ELSE "none",
     review   |-> IF options.generate_review THEN "running" ELSE "none"]

LaunchedStages ==
    (IF options.generate_diagrams THEN <<"diagrams">> ELSE <<>>)
    \o (IF options.generate_review THEN <<"review">> ELSE <<>>)

\* Step 4, up to the await of gather: build the task list and start it.
A_FanOut ==
    /\ entry = "analyse" /\ pc = "fanout"
    /\ \E cb \in CallbackOutcomes(has_callback) :
        LET p == IF LaunchedStages # <<>>
                 THEN Progress(cb_log, "Generating", cb)
                 ELSE [log |-> cb_log, exc |-> FALSE]
        IN  /\ cb_log' = p.log
            /\ cb_raised' = (cb_raised \/ (LaunchedStages # <<>> /\ cb = "raise"))
            /\ IF p.exc
               THEN /\ pc' = "raised"
                    /\ exc' = "CallbackError"
                    /\ UNCHANGED <<branch, stages>>
               ELSE /\ pc' = "gather"
                    /\ exc' = exc
                    /\ branch' = Launched
                    /\ stages' = stages \o LaunchedStages
    /\ UNCHANGED <<entry, has_callback, files, options, storm_enabled, env,
                   branch_result, diagrams, review, report, assembled, persisted,
                   returned, run_state, gen_vars, pure_vars>>

\* The status _report leaves for a type once its task has ended.
FinalStatus(dtype, outcome) ==
    IF ~IsKnownType(dtype) THEN "Unknown type"
    ELSE IF RunPipeline(dtype, outcome).fallback THEN "Done (fallback)"
    ELSE "Done"

\* diagram_progress after generate has run with the worker's _on_diag_prog.
FinalProgress(seen, types, outcomes) ==
    [t \in TypeNames |->
        IF \E i \in 1..Len(types) : types[i] = t
        THEN LET last == CHOOSE i \in 1..Len(types) :
                            /\ types[i] = t
                            /\ \A j \in 1..Len(types) : types[j] = t => j <= i
             IN  FinalStatus(t, outcomes[last])
        ELSE seen[t]]

\* The diagram coroutine of the fan-out, DiagramGenerator.generate, from its
\* start to its end: it raises (the output directory cannot be created) or
\* returns the list of diagrams.
DiagramBranch ==
    /\ entry \in {"analyse", "worker"} /\ pc = "gather"
    /\ branch.diagrams = "running"
    /\ \/ /\ env' = [env EXCEPT !.diagrams = "raise"]
          /\ branch' = [branch EXCEPT !.diagrams = "raised"]
          /\ branch_result' = [branch_result EXCEPT !.diagrams = ExceptionResult("OSError")]
          /\ UNCHANGED <<files, diagram_progress>>
       \/ \E outcomes \in [1..Len(options.diagram_types) -> ServiceOutcomes] :
          /\ env' = [env EXCEPT !.diagrams = "ok"]
          /\ branch' = [branch EXCEPT !.diagrams = "returned"]
          /\ branch_result' = [branch_result EXCEPT !.diagrams =
                                  ListResult(GenerateResult(options.diagram_types, outcomes))]
          /\ files' = files \cup GenerateWrites(options.diagram_types, outcomes)
          /\ diagram_progress' =
                IF entry = "worker"
                THEN FinalProgress(diagram_progress, options.diagram_types, outcomes)
                ELSE diagram_progress
    /\ UNCHANGED <<entry, has_callback, pc, cb_raised, options, storm_enabled,
                   diagrams, review, report, assembled, persisted, stages, cb_log,
                   exc, returned, run_state, diagram_types, task, task_result,
                   warned, fallback_calls, generated, pure_vars>>

\* The review coroutine of the fan-out, PaperReviewer.review: it raises
\* ReviewError or returns a PeerReview.
ReviewBranch ==
    /\ entry \in {"analyse", "worker"} /\ pc = "gather"
    /\ branch.review = "running"
    /\ \/ /\ env' = [env EXCEPT !.review = "raise"]
          /\ branch' = [branch EXCEPT !.review = "raised"]
          /\ branch_result' = [branch_result EXCEPT !.review = ExceptionResult("ReviewError")]
       \/ \E sc \in WorkflowScores :
          /\ env' = [env EXCEPT !.review = "ok"]
          /\ branch' = [branch EXCEPT !.review = "returned"]
          /\ branch_result' = [branch_result EXCEPT !.review =
                                  ObjectResult(PeerReview(sc[1], sc[2], sc[3]))]
    /\ UNCHANGED <<shared_vars, options, storm_enabled, diagrams, review, report,
                   assembled, persisted, stages, cb_log, exc, returned, run_state,
                   gen_vars, pure_vars>>

\* Step 4, after the await: sort the gathered results into diagrams and review.
A_Collect ==
    /\ entry = "analyse" /\ pc = "gather"
    /\ GatherReady
    /\ IF GatherRaises(GatheredResults)
       THEN /\ pc' = "raised"
            /\ exc' = "TaskError"
            /\ UNCHANGED <<diagrams, review>>
       ELSE LET d == Dispatch(GatheredResults, NothingYet)
            IN  /\ diagrams' = d.diagrams
                /\ review' = d.review
                /\ pc' = "assemble"
                /\ exc' = exc
    /\ UNCHANGED <<entry, has_callback, cb_raised, files, options, storm_enabled,
                   env, branch, branch_result, report, assembled, persisted, stages,
                   cb_log, returned, run_state, gen_vars, pure_vars>>

\* Steps 5 to 8: summary, key points, the AnalysisReport, save_all.
A_Assemble ==
    /\ entry = "analyse" /\ pc = "assemble"
    /\ report' = AnalysisReport(options, review, diagrams)
    /\ assembled' = report'
    /\ persisted' = Metadata(report')
    /\ files' = files \cup SaveAllWrites(report')
    /\ stages' = Append(stages, "save_all")
    /\ pc' = "storm"
    /\ UNCHANGED <<entry, has_callback, cb_raised, options, storm_enabled, env,
                   branch, branch_result, diagrams, review, cb_log, exc, returned,
                   run_state, gen_vars, pure_vars>>

\* Step 9: the STORM article, if requested and enabled, inside its own try.
A_Storm ==
    /\ entry = "analyse" /\ pc = "storm"
    /\ IF StormRequested
       THEN \E cb \in CallbackOutcomes(has_callback),
               outcome \in {[kind |-> "raise", text |-> ""]}
                           \cup {[kind |-> "ok", text |-> a] : a \in Articles} :
            LET p == Progress(cb_log, "Generating STORM Wikipedia report", cb)
                failed == p.exc \/ outcome.kind = "raise"
            IN  /\ cb_log' = p.log
                /\ cb_raised' = (cb_raised \/ cb = "raise")
                /\ stages' = IF p.exc THEN stages ELSE Append(stages, "storm")
                /\ env' = IF p.exc THEN env
                          ELSE [env EXCEPT !.storm =
                                   IF outcome.kind = "raise" THEN "raise"
                                   ELSE IF outcome.text = "" THEN "empty" ELSE "ok"]
                /\ IF failed
                   THEN /\ UNCHANGED <<report, files>>
                        /\ pc' = IF StormCatches("Exception") THEN "audio" ELSE "raised"
                        /\ exc' = IF StormCatches("Exception") THEN exc ELSE "StormError"
                   ELSE /\ report' = [report EXCEPT !.storm_report = outcome.text]
                        /\ files' = IF outcome.text # ""
                                    THEN files \cup {<<"storm_report.md">>}
                                    ELSE files
                        /\ pc' = "audio"
                        /\ exc' = exc
       ELSE /\ pc' = "audio"
            /\ UNCHANGED <<cb_log, cb_raised, stages, env, report, files, exc>>
    /\ UNCHANGED <<entry, has_callback, options, storm_enabled, branch, branch_result,
                   diagrams, review, assembled, persisted, returned, run_state,
                   gen_vars, pure_vars>>

\* Step 10 and the return: audio narration, if requested, inside its own try.
A_Audio ==
    /\ entry = "analyse" /\ pc = "audio"
    /\ IF options.generate_audio
       THEN \E cb \in CallbackOutcomes(has_callback), outcome \in {"ok", "raise"} :
            LET p == Progress(cb_log, "Generating audio narration (TTS)", cb)
                failed == p.exc \/ outcome = "raise"
                caught == AudioCatches("Exception")
            IN  /\ cb_log' = p.log
                /\ cb_raised' = (cb_raised \/ cb = "raise")
                /\ stages' = IF p.exc THEN stages ELSE Append(stages, "audio")
                /\ env' = IF p.exc THEN env ELSE [env EXCEPT !.audio = outcome]
                /\ files' = IF failed THEN files ELSE files \cup {<<"audio", "narration.wav">>}
                /\ pc' = IF failed /\ ~caught THEN "raised" ELSE "done"
                /\ exc' = IF failed /\ ~caught THEN "AudioError" ELSE exc
                /\ returned' = IF failed /\ ~caught THEN returned ELSE report
       ELSE /\ pc' = "done"
            /\ returned' = report
            /\ UNCHANGED <<cb_log, cb_raised, stages, env, files, exc>>
    /\ UNCHANGED <<entry, has_callback, options, storm_enabled, branch, branch_result,
                   diagrams, review, report, assembled, persisted, run_state,
                   gen_vars, pure_vars>>

\* ------------------------------------------------ _analysis_worker (app.py)

\* except Exception as exc / finally of the worker: the error is stored and
\* done is set; log is the progress log at that point.
WorkerFails(log, error) ==
    /\ run_state' = [run_state EXCEPT !.progress = log, !.error = error, !.done = TRUE]
    /\ pc' = "done"

\* Stage 1, first half: push 5 and detect the source type.
W_Detect ==
    /\ entry = "worker" /\ pc = "start"
    /\ \E outcome \in {"ok", "raise"} :
        LET log == Push(run_state.progress, 5, "Fetching PDF")
        IN  /\ env' = [env EXCEPT !.detect = outcome]
            /\ IF outcome = "raise"
               THEN WorkerFails(log, "InputError")
               ELSE /\ run_state' = [run_state EXCEPT !.progress = log]
                    /\ pc' = "resolve"
    /\ UNCHANGED <<entry, has_callback, cb_raised, files, options, storm_enabled,
                   branch, branch_result, diagrams, review, report, assembled,
                   persisted, stages, cb_log, exc, returned, gen_vars, pure_vars>>

\* Stage 1, second half: resolve the PDF, push 10 and 15.
W_Resolve ==
    /\ entry = "worker" /\ pc = "resolve"
    /\ stages' = Append(stages, "resolve")
    /\ \E outcome \in {"ok", "raise"} :
        /\ env' = [env EXCEPT !.resolve = outcome]
        /\ IF outcome = "raise"
           THEN WorkerFails(run_state.progress, "InputError")
           ELSE /\ run_state' = [run_state EXCEPT !.progress =
                                    PushAll(@, << <<10, "PDF ready">>,
                                                  <<15, "Extracting content (OCR)">> >>)]
                /\ pc' = "extract"
    /\ UNCHANGED <<entry, has_callback, cb_raised, files, options, storm_enabled,
                   branch, branch_result, diagrams, review, report, assembled,
                   persisted, cb_log, exc, returned, gen_vars, pure_vars>>

\* Stage 2: OCR, push 40, store the partial view.
W_Extract ==
    /\ entry = "worker" /\ pc = "extract"
    /\ stages' = Append(stages, "extract")
    /\ \E outcome \in {"ok", "raise"} :
        /\ env' = [env EXCEPT !.extract = outcome]
        /\ IF outcome = "raise"
           THEN WorkerFails(run_state.progress, "ExtractionError")
           ELSE /\ run_state' = [run_state EXCEPT !.progress = Push(@, 40, "Extracted"),
                                                  !.partial = TRUE]
                /\ pc' = "fanout"
    /\ UNCHANGED <<entry, has_callback, cb_raised, files, options, storm_enabled,
                   branch, branch_result, diagrams, review, report, assembled,
                   persisted, cb_log, exc, returned, gen_vars, pure_vars>>

\* Stage 3, up to the gather: build the task list, push 50, start the tasks.
W_FanOut ==
    /\ entry = "worker" /\ pc = "fanout"
    /\ run_state' = [run_state EXCEPT !.progress =
                        IF LaunchedStages # <<>> THEN Push(@, 50, "Generating") ELSE @]
    /\ branch' = Launched
    /\ stages' = stages \o LaunchedStages
    /\ pc' = "gather"
    /\ UNCHANGED <<entry, has_callback, cb_raised, files, options, storm_enabled, env,
                   branch_result, diagrams, review, report, assembled, persisted,
                   cb_log, exc, returned, gen_vars, pure_vars>>

\* Stage 3, after the gather: sort the results, push 75 and 78.
W_Collect ==
    /\ entry = "worker" /\ pc = "gather"
    /\ GatherReady
    /\ IF GatherRaises(GatheredResults)
       THEN /\ WorkerFails(run_state.progress, "TaskError")
            /\ UNCHANGED <<diagrams, review>>
       ELSE LET d == Dispatch(GatheredResults, NothingYet)
                log1 == IF d.diagrams # <<>>
                        THEN Push(run_state.progress, 75, "diagram(s) ready")
                        ELSE run_state.progress
                log2 == IF d.review # None THEN Push(log1, 78, "Peer review") ELSE log1
            IN  /\ diagrams' = d.diagrams
                /\ review' = d.review
                /\ run_state' = [run_state EXCEPT !.progress = log2]
                /\ pc' = "assemble"
    /\ UNCHANGED <<entry, has_callback, cb_raised, files, options, storm_enabled,
                   env, branch, branch_result, report, assembled, persisted, stages,
                   cb_log, exc, returned, gen_vars, pure_vars>>

\* Stage 4: push 80, assemble the report, push 85, save_all.
W_Assemble ==
    /\ entry = "worker" /\ pc = "assemble"
    /\ report' = AnalysisReport(options, review, diagrams)
    /\ assembled' = report'
    /\ persisted' = Metadata(report')
    /\ files' = files \cup SaveAllWrites(report')
    /\ stages' = Append(stages, "save_all")
    /\ run_state' = [run_state EXCEPT !.progress =
                        PushAll(@, << <<80, "Assembling report">>,
                                      <<85, "Saving outputs">> >>)]
    /\ pc' = "storm"
    /\ UNCHANGED <<entry, has_callback, cb_raised, options, storm_enabled, env,
                   branch, branch_result, diagrams, review, cb_log, exc, returned,
                   gen_vars, pure_vars>>

\* Stage 5: STORM, if requested and enabled; push 87, then 93 either way.
W_Storm ==
    /\ entry = "worker" /\ pc = "storm"
    /\ IF StormRequested
       THEN \E outcome \in {[kind |-> "raise", text |-> ""]}
                           \cup {[kind |-> "ok", text |-> a] : a \in Articles} :
            LET log == Push(run_state.progress, 87, "Generating STORM report")
            IN  /\ stages' = Append(stages, "storm")
                /\ env' = [env EXCEPT !.storm =
                              IF outcome.kind = "raise" THEN "raise"
                              ELSE IF outcome.text = "" THEN "empty" ELSE "ok"]
                /\ IF outcome.kind = "raise"
                   THEN /\ UNCHANGED <<report, files>>
                        /\ IF StormCatches("Exception")
                           THEN /\ run_state' = [run_state EXCEPT !.progress =
                                                    Push(log, 93, "STORM failed")]
                                /\ pc' = "audio"
                           ELSE WorkerFails(log, "StormError")
                   ELSE /\ report' = [report EXCEPT !.storm_report = outcome.text]
                        /\ files' = IF outcome.text # ""
                                    THEN files \cup {<<"storm_report.md">>}
                                    ELSE files
                        /\ run_state' = [run_state EXCEPT !.progress =
                                            Push(log, 93, "STORM report ready")]
                        /\ pc' = "audio"
       ELSE /\ pc' = "audio"
            /\ UNCHANGED <<stages, env, report, files, run_state>>
    /\ UNCHANGED <<entry, has_callback, cb_raised, options, storm_enabled, branch,
                   branch_result, diagrams, review, assembled, persisted, cb_log,
                   exc, returned, gen_vars, pure_vars>>

\* Stage 6 and the end: audio if requested (push 94, then 99 either way), push
\* 100, store the report, set done.
W_Audio ==
    /\ entry = "worker" /\ pc = "audio"
    /\ \E outcome \in (IF options.generate_audio THEN {"ok", "raise"} ELSE {"none"}) :
        LET log0 == run_state.progress
            log1 == IF outcome = "none" THEN log0
                    ELSE Push(log0, 94, "Generating audio narration")
            log2 == IF outcome = "ok" THEN Push(log1, 99, "Audio narration ready")
                    ELSE IF outcome = "raise" THEN Push(log1, 99, "Audio failed")
                    ELSE log1
        IN  /\ stages' = IF outcome = "none" THEN stages ELSE Append(stages, "audio")
            /\ env' = [env EXCEPT !.audio = outcome]
            /\ files' = IF outcome = "ok"
                        THEN files \cup {<<"audio", "narration.wav">>}
                        ELSE files
            /\ IF outcome = "raise" /\ ~AudioCatches("Exception")
               THEN WorkerFails(log1, "AudioError")
               ELSE /\ run_state' = [run_state EXCEPT
                                        !.progress = Push(log2, 100, "Analysis complete!"),
                                        !.report = report,
                                        !.done = TRUE]
                    /\ pc' = "done"
    /\ UNCHANGED <<entry, has_callback, cb_raised, options, storm_enabled, branch,
                   branch_result, diagrams, review, report, assembled, persisted,
                   cb_log, exc, returned, gen_vars, pure_vars>>

\* A stage's call ends with a BaseException that is not an Exception (a
\* SystemExit raised by a library, an asyncio.CancelledError out of
\* asyncio.run) during resolve or OCR: no except clause of the worker catches
\* it, the finally clause sets done, and it leaves the thread.
W_Exit ==
    /\ entry = "worker" /\ pc \in {"resolve", "extract"}
    /\ run_state' = [run_state EXCEPT !.done = TRUE]
    /\ pc' = "exited"
    /\ UNCHANGED <<entry, has_callback, cb_raised, files, options, storm_enabled, env,
                   branch, branch_result, diagrams, review, report, assembled,
                   persisted, stages, cb_log, exc, returned, gen_vars, pure_vars>>

\* ------------------------------------------------ DiagramGenerator.generate

RECURSIVE ReportQueued(_, _, _)
\* for dtype in diagram_types: _report(dtype, "Queued")
ReportQueued(seen, types, cbs) ==
    IF types = <<>> THEN [seen |-> seen, exc |-> FALSE]
    ELSE LET r == Report(seen, Head(types), "Queued", Head(cbs))
         IN  IF r.exc THEN r ELSE ReportQueued(r.seen, Tail(types), Tail(cbs))

\* generate up to its gather: the output directory is made, every type is
\* reported as queued, one _run_one task per requested type is created.
G_Start ==
    /\ entry = "generate" /\ pc = "start"
    /\ \E cbs \in [1..Len(diagram_types) -> CallbackOutcomes(has_callback)] :
        LET r == ReportQueued(diagram_progress, diagram_types, cbs)
        IN  /\ diagram_progress' = r.seen
            /\ cb_raised' = (cb_raised \/ AnyRaise(cbs))
            /\ pc' = IF r.exc THEN "raised" ELSE "gather"
    /\ UNCHANGED <<entry, has_callback, files, orch_vars, diagram_types, task,
                   task_result, warned, fallback_calls, generated, pure_vars>>

\* A task ends: its entry of the gathered list is set.
TaskEnds(i, result) ==
    /\ task' = [task EXCEPT ![i] = "done"]
    /\ task_result' = [task_result EXCEPT ![i] = result]

\* _run_one from its start to its first suspension (or its end).  Tasks start in
\* the order gather was given them.  An unknown type is logged and yields None;
\* a known type whose pipeline cannot be built falls back at once; otherwise the
\* task awaits the diagram service.
G_RunOne(i) ==
    /\ entry = "generate" /\ pc = "gather"
    /\ task[i] = "created"
    /\ \A j \in 1..(i - 1) : task[j] # "created"
    /\ \E cb1, cb2 \in CallbackOutcomes(has_callback), available \in BOOLEAN :
        LET dtype == diagram_types[i]
            r1 == Report(diagram_progress, dtype, "Generating", cb1)
            unavailable == [kind |-> "unavailable", text |-> ""]
        IN  IF r1.exc
            THEN /\ TaskEnds(i, ExceptionResult("CallbackError"))
                 /\ diagram_progress' = r1.seen
                 /\ cb_raised' = TRUE
                 /\ UNCHANGED <<warned, fallback_calls, files>>
            ELSE IF ~IsKnownType(dtype)
            THEN LET r2 == Report(r1.seen, dtype, "Unknown type", cb2)
                 IN  /\ warned' = warned \cup {i}
                     /\ diagram_progress' = r2.seen
                     /\ cb_raised' = (cb_raised \/ cb1 = "raise" \/ cb2 = "raise")
                     /\ TaskEnds(i, IF r2.exc THEN ExceptionResult("CallbackError")
                                    ELSE TaskResult(dtype, unavailable))
                     /\ UNCHANGED <<fallback_calls, files>>
            ELSE IF available
            THEN /\ task' = [task EXCEPT ![i] = "awaiting"]
                 /\ diagram_progress' = r1.seen
                 /\ cb_raised' = (cb_raised \/ cb1 = "raise")
                 /\ UNCHANGED <<task_result, warned, fallback_calls, files>>
            ELSE LET run == RunPipeline(dtype, unavailable)
                     r2 == Report(r1.seen, dtype, FinalStatus(dtype, unavailable), cb2)
                 IN  /\ files' = files \cup run.written
                     /\ fallback_calls' = fallback_calls \cup {i}
                     /\ diagram_progress' = r2.seen
                     /\ cb_raised' = (cb_raised \/ cb1 = "raise" \/ cb2 = "raise")
                     /\ TaskEnds(i, IF r2.exc THEN ExceptionResult("CallbackError")
                                    ELSE TaskResult(dtype, unavailable))
                     /\ UNCHANGED warned
    /\ UNCHANGED <<entry, has_callback, pc, orch_vars, diagram_types, generated, pure_vars>>

\* _run_one after the await of pipeline.generate: the image is copied to the
\* standard path, or the exception (a raise, a missing file) turns into the
\* fallback; the final status is reported.
G_Resume(i) ==
    /\ entry = "generate" /\ pc = "gather"
    /\ task[i] = "awaiting"
    /\ \E cb \in CallbackOutcomes(has_callback),
          outcome \in {o \in ServiceOutcomes : o.kind # "unavailable"} :
        LET dtype == diagram_types[i]
            run == RunPipeline(dtype, outcome)
            r == Report(diagram_progress, dtype, FinalStatus(dtype, outcome), cb)
        IN  /\ files' = files \cup run.written
            /\ fallback_calls' = IF run.fallback THEN fallback_calls \cup {i}
                                 ELSE fallback_calls
            /\ diagram_progress' = r.seen
            /\ cb_raised' = (cb_raised \/ cb = "raise")
            /\ TaskEnds(i, IF r.exc THEN ExceptionResult("CallbackError")
                           ELSE TaskResult(dtype, outcome))
    /\ UNCHANGED <<entry, has_callback, pc, orch_vars, diagram_types, warned, generated, pure_vars>>

\* generate after its gather: the diagrams among the gathered results.
G_Return ==
    /\ entry = "generate" /\ pc = "gather"
    /\ \A i \in 1..Len(diagram_types) : task[i] = "done"
    /\ generated' = ListResult(CollectDiagrams(task_result))
    /\ pc' = "done"
    /\ UNCHANGED <<entry, has_callback, cb_raised, files, orch_vars, diagram_types,
                   task, task_result, warned, fallback_calls, diagram_progress, pure_vars>>

\* ------------------------------------------------ specification

Next ==
    \/ A_Detect \/ A_Resolve \/ A_Extract \/ A_FanOut \/ A_Collect
    \/ A_Assemble \/ A_Storm \/ A_Audio
    \/ DiagramBranch \/ ReviewBranch
    \/ W_Detect \/ W_Resolve \/ W_Extract \/ W_FanOut \/ W_Collect
    \/ W_Assemble \/ W_Storm \/ W_Audio \/ W_Exit
    \/ G_Start
    \/ \E i \in 1..MaxTypes : i <= Len(diagram_types) /\ (G_RunOne(i) \/ G_Resume(i))
    \/ G_Return

Spec == Init /\ [][Next]_vars

\* ------------------------------------------------ reviewer.py as a state machine

ScoreNumerators == (-MaxNum)..MaxNum

InitScore ==
    /\ PipelineIdle
    /\ PureIdleExcept("compute_final_score")
    /\ dimension_scores \in ScoreNumerators \X ScoreNumerators \X ScoreNumerators
    /\ final_score = None

\* compute_final_score(soundness, presentation, contribution)
ComputeFinalScore ==
    /\ final_score = None
    /\ final_score' = [value |-> compute_final_score(dimension_scores[1],
                                                     dimension_scores[2],
                                                     dimension_scores[3])]
    /\ UNCHANGED dimension_scores
    /\ Frame("compute_final_score")

NextScore == ComputeFinalScore

SpecScore == InitScore /\ [][NextScore]_vars

\* ------------------------------------------------ interpret_score

\* The scores interpret_score is applied to: the eighths from 0.0 to
\* MaxEighths / 8 and every value compute_final_score returns.
ScoreInputs ==
    {(k * Units(1)) \div 8 : k \in 0..MaxEighths}
    \cup {compute_final_score(s, p, c) : s, p, c \in ScoreNumerators}

InitInterpret ==
    /\ PipelineIdle
    /\ PureIdleExcept("interpret_score")
    /\ score \in {[value |-> x] : x \in ScoreInputs}
    /\ decision = None

\* interpret_score(score)
InterpretScore ==
    /\ decision = None
    /\ decision' = [label |-> interpret_score(score.value)]
    /\ UNCHANGED score
    /\ Frame("interpret_score")

NextInterpret == InterpretScore

SpecInterpret == InitInterpret /\ [][NextInterpret]_vars

\* ------------------------------------------------ ocr_engine.py: equations

\* A text is modelled by the sequence of its equation matches, in text order.
\* The display forms are named after DISPLAY_EQUATION_PATTERNS, in its order.
DISPLAY_EQUATION_PATTERNS == <<"$$", "bracket", "equation", "align", "gather">>

\* A match of INLINE_EQUATION_PATTERN whose stripped latex has at least three
\* characters ("inline"), or fewer ("inline_short").
InlineForms == {"inline", "inline_short"}

EquationForms == Range(DISPLAY_EQUATION_PATTERNS) \cup InlineForms

Indices(text) == [i \in 1..Len(text) |-> i]

\* pattern.finditer(text): the positions of the matches of one form, in order.
FindIter(form, text) == SelectSeq(Indices(text), LAMBDA i : text[i] = form)

RECURSIVE Digits(_)
\* str(n) for n >= 0, as a sequence of digits.
Digits(n) == IF n < 10 THEN <<n>> ELSE Append(Digits(n \div 10), n % 10)

\* f"{n:03d}": str(n) padded with zeros on the left to three characters.
Pad3(n) ==
    LET d == Digits(n)
    IN  IF Len(d) >= 3 THEN d ELSE [i \in 1..(3 - Len(d)) |-> 0] \o d

\* f"eq_{n:03d}"
EqId(n) == [prefix |-> "eq_", digits |-> Pad3(n)]

Equation(id, latex, start, is_inline) ==
    [id |-> id, latex |-> latex, start |-> start, is_inline |-> is_inline]

\* An inline pass that counts from zero again.
InlineCounterRestarts(eq_counter) == 0

\* The value of eq_counter when the inline pass begins: the display pass's
\* last value, the counter being shared.
InlineCounter(eq_counter) == eq_counter

\* OCREngine.extract_equations
extract_equations(text) ==
    LET RECURSIVE DisplayMatches(_)
        DisplayMatches(k) ==
            IF k > Len(DISPLAY_EQUATION_PATTERNS) THEN <<>>
            ELSE FindIter(DISPLAY_EQUATION_PATTERNS[k], text) \o DisplayMatches(k + 1)
        display == DisplayMatches(1)
        inline  == SelectSeq(Indices(text), LAMBDA i : text[i] \in InlineForms)
        first   == InlineCounter(Len(display))
        shown   == [j \in 1..Len(display) |->
                        Equation(EqId(j), text[display[j]], display[j], FALSE)]
        inlined == [j \in 1..Len(inline) |->
                        Equation(EqId(first + j), text[inline[j]], inline[j], TRUE)]
    IN  shown \o SelectSeq(inlined, LAMBDA e : e.latex # "inline_short")

\* The renumbering of the TeX source's equations in OCREngine.extract:
\* enumerate(tex_equations, start=len(equations) + 1).
Renumber(tex_equations, start) ==
    [j \in 1..Len(tex_equations) |->
         [tex_equations[j] EXCEPT !.id = EqId(start + j - 1)]]

Texts(n) == SeqsUpTo(EquationForms, n)

InitEquations ==
    /\ PipelineIdle
    /\ PureIdleExcept("extract_equations")
    /\ markdown_text \in Texts(MaxMatches)
    /\ tex_source_text \in {None} \cup {[text |-> t] : t \in Texts(MaxTexMatches)}
    /\ equations = None
    /\ document_equations = None

\* equations = self.extract_equations(markdown_text)
ExtractEquations ==
    /\ equations = None
    /\ equations' = [items |-> extract_equations(markdown_text)]
    /\ UNCHANGED <<markdown_text, tex_source_text, document_equations>>
    /\ Frame("extract_equations")

\* The TeX source sidecar, when it exists, is parsed, its equations renumbered
\* and appended; the list becomes ExtractedContent.equations.
MergeTexEquations ==
    /\ equations # None /\ document_equations = None
    /\ document_equations' =
           IF tex_source_text = None THEN equations
           ELSE LET tex_equations == extract_equations(tex_source_text.text)
                IN  [items |-> equations.items
                                \o Renumber(tex_equations, Len(equations.items) + 1)]
    /\ UNCHANGED <<markdown_text, tex_source_text, equations>>
    /\ Frame("extract_equations")

NextEquations == ExtractEquations \/ MergeTexEquations

SpecEquations == InitEquations /\ [][NextEquations]_vars

\* ------------------------------------------------ ocr_engine.py: tables, figures

\* block.get("type") of an OCR block ("text" stands for every other type).
TableBlockTypes == {"table", "table_body", "table_caption"}

FigureBlockTypes == {"figure", "figure_caption", "image"}

BlockTypes == TableBlockTypes \cup FigureBlockTypes \cup {"text"}

\* A line of the markdown, by what the fallback scanners see in it:
\*   row     - contains "|" and starts with "|" after stripping
\*   sep     - such a line that also matches the separator pattern
\*   tablecap - matches the "Table N: ..." caption pattern
\*   figcap  - matches the "Figure N ..." caption pattern
\*   plain   - none of these
LineKinds == {"row", "sep", "tablecap", "figcap", "plain"}

IsPipeLine(line) == line \in {"row", "sep"}

\* f"table_{n:03d}" and f"fig_{n:03d}"
TableId(n) == [prefix |-> "table_", digits |-> Pad3(n)]

FigId(n) == [prefix |-> "fig_", digits |-> Pad3(n)]

\* The primary pass of extract_tables: one Table per table block, in order.
\* content names the block the entry was built from.
TablesFromBlocks(bs) ==
    LET hits == SelectSeq(Indices(bs), LAMBDA i : bs[i] \in TableBlockTypes)
    IN  [j \in 1..Len(hits) |->
             [id |-> TableId(j), content |-> <<"block", hits[j], hits[j]>>,
              caption |-> NoText, rows |-> 0]]

\* An inner loop that collects no line.
RunEndStuck(lines, i) == i

\* The end of the run of pipe lines that begins at line i: the first index
\* past it.
RECURSIVE RunEnd(_, _)
RunEnd(lines, i) ==
    IF i <= Len(lines) /\ IsPipeLine(lines[i]) THEN RunEnd(lines, i + 1) ELSE i

\* OCREngine._extract_tables_from_markdown, from line i on with table_counter
\* tables found so far.  content names the lines the entry was built from.
RECURSIVE ScanTables(_, _, _)
ScanTables(lines, i, table_counter) ==
    IF i > Len(lines) THEN <<>>
    ELSE IF IsPipeLine(lines[i])
    THEN LET j == RunEnd(lines, i)
         IN  IF j - i >= 3 /\ lines[i + 1] = "sep"
             THEN << [id |-> TableId(table_counter + 1),
                      content |-> <<"lines", i, j - 1>>,
                      caption |-> IF j <= Len(lines) /\ lines[j] = "tablecap"
                                  THEN "caption" ELSE NoText,
                      rows |-> j - i - 2] >>
                  \o ScanTables(lines, j, table_counter + 1)
             ELSE ScanTables(lines, j, table_counter)
    ELSE ScanTables(lines, i + 1, table_counter)

extract_tables_from_markdown(lines) == ScanTables(lines, 1, 0)

\* A fallback guard that ignores the primary list.
NeedsFallbackAlways(primary, lines) == lines # <<>>

\* if not tables and markdown_text: (likewise for figures)
NeedsFallback(primary, lines) == primary = <<>> /\ lines # <<>>

\* OCREngine.extract_tables
extract_tables(bs, lines) ==
    LET primary == TablesFromBlocks(bs)
    IN  IF NeedsFallback(primary, lines)
        THEN extract_tables_from_markdown(lines)
        ELSE primary

\* The primary pass of extract_figures.
FiguresFromBlocks(bs) ==
    LET hits == SelectSeq(Indices(bs), LAMBDA i : bs[i] \in FigureBlockTypes)
    IN  [j \in 1..Len(hits) |->
             [id |-> FigId(j), content |-> <<"block", hits[j], hits[j]>>]]

\* OCREngine._extract_figures_from_markdown: one Figure per caption line.
extract_figures_from_markdown(lines) ==
    LET hits == FindIter("figcap", lines)
    IN  [j \in 1..Len(hits) |->
             [id |-> FigId(j), content |-> <<"lines", hits[j], hits[j]>>]]

\* OCREngine.extract_figures
extract_figures(bs, lines) ==
    LET primary == FiguresFromBlocks(bs)
    IN  IF NeedsFallback(primary, lines)
        THEN extract_figures_from_markdown(lines)
        ELSE primary

InitBlocks ==
    /\ PipelineIdle
    /\ PureIdleExcept("extract_tables")
    /\ blocks \in SeqsUpTo(BlockTypes, MaxBlocks)
    /\ markdown_lines \in SeqsUpTo(LineKinds, MaxLines)
    /\ tables = None
    /\ figures = None

\* tables = self.extract_tables(blocks, markdown_text)
ExtractTables ==
    /\ tables = None
    /\ tables' = [items |-> extract_tables(blocks, markdown_lines)]
    /\ UNCHANGED <<blocks, markdown_lines, figures>>
    /\ Frame("extract_tables")

\* figures = self.extract_figures(blocks, markdown_text)
ExtractFigures ==
    /\ tables # None /\ figures = None
    /\ figures' = [items |-> extract_figures(blocks, markdown_lines)]
    /\ UNCHANGED <<blocks, markdown_lines, tables>>
    /\ Frame("extract_tables")

NextBlocks == ExtractTables \/ ExtractFigures

SpecBlocks == InitBlocks /\ [][NextBlocks]_vars

\* ------------------------------------------------ ocr_engine.py: sections

\* A line of the text, by what SECTION_HEADER_PATTERN = ^(#{1,6})\s+(.+)$
\* (MULTILINE) sees in it:
\*   heading - 1..6 markers, white space, a title          ("## Method")
\*   bare    - 1..6 markers and nothing else                ("##")
\*   blank   - the empty line
\*   plain   - anything else (text, seven markers, "#word", an indented "#")
SectionLines ==
    {[kind |-> "heading", level |-> l] : l \in 1..MaxLevel}
    \cup {[kind |-> "bare", level |-> 2],
          [kind |-> "blank", level |-> 0],
          [kind |-> "plain", level |-> 0]}

\* The first line from i on that is not blank (Len(lines) + 1 if none).
RECURSIVE NextNonBlank(_, _)
NextNonBlank(lines, i) ==
    IF i <= Len(lines) /\ lines[i].kind = "blank" THEN NextNonBlank(lines, i + 1) ELSE i

\* SECTION_HEADER_PATTERN.finditer(text) from line i on.  A heading line is a
\* match by itself.  On a bare line the markers match, \s+ runs over the line
\* break and every blank line that follows, and (.+) takes the next non-blank
\* line, whatever it is, as the title; the scan resumes after that line.  With
\* no such line there is no match.
RECURSIVE HeaderMatches(_, _)
HeaderMatches(lines, i) ==
    IF i > Len(lines) THEN <<>>
    ELSE IF lines[i].kind = "heading"
    THEN <<[start |-> i, end |-> i, level |-> lines[i].level, title |-> <<i, "title">>]>>
         \o HeaderMatches(lines, i + 1)
    ELSE IF lines[i].kind = "bare"
    THEN LET j == NextNonBlank(lines, i + 1)
         IN  IF j <= Len(lines)
             THEN <<[start |-> i, end |-> j, level |-> lines[i].level,
                     title |-> <<j, "line">>]>>
                  \o HeaderMatches(lines, j + 1)
             ELSE HeaderMatches(lines, i + 1)
    ELSE HeaderMatches(lines, i + 1)

\* text[start:end].strip(), as the numbers of the lines it keeps: lines
\* first..last without the blank lines at either end.
RECURSIVE Strip(_, _, _)
Strip(lines, first, last) ==
    IF first > last THEN <<>>
    ELSE IF lines[first].kind = "blank" THEN Strip(lines, first + 1, last)
    ELSE IF lines[last].kind = "blank" THEN Strip(lines, first, last - 1)
    ELSE [k \in 1..(last - first + 1) |-> first + k - 1]

\* OCREngine.parse_sections
parse_sections(lines) ==
    LET matches == HeaderMatches(lines, 1)
    IN  [i \in 1..Len(matches) |->
             [title   |-> matches[i].title,
              level   |-> matches[i].level,
              content |-> Strip(lines, matches[i].end + 1,
                                IF i + 1 <= Len(matches) THEN matches[i + 1].start - 1
                                ELSE Len(lines))]]

InitSections ==
    /\ PipelineIdle
    /\ PureIdleExcept("parse_sections")
    /\ section_text \in SeqsUpTo(SectionLines, MaxSectionLines)
    /\ sections = None

\* sections = self.parse_sections(markdown_text)
ParseSections ==
    /\ sections = None
    /\ sections' = [items |-> parse_sections(section_text)]
    /\ UNCHANGED section_text
    /\ Frame("parse_sections")

NextSections == ParseSections

SpecSections == InitSections /\ [][NextSections]_vars

\* ------------------------------------------------ reviewer.py: the workflow

\* The edges of the graph with Scoring left out.
SuccessorSkipsScoring(node) ==
    CASE node = "paper_intake"            -> "query_generation"
      [] node = "query_generation"        -> "related_work_search"
      [] node = "related_work_search"     -> "strength_identification"
      [] node = "strength_identification" -> "weakness_analysis"
      [] node = "weakness_analysis"       -> "review_composition"
      [] node = "scoring"                 -> "review_composition"
      [] node = "review_composition"      -> "END"

\* workflow.add_edge(a, b): the node that runs after node.
Successor(node) ==
    CASE node = "paper_intake"            -> "query_generation"
      [] node = "query_generation"        -> "related_work_search"
      [] node = "related_work_search"     -> "strength_identification"
      [] node = "strength_identification" -> "weakness_analysis"
      [] node = "weakness_analysis"       -> "scoring"
      [] node = "scoring"                 -> "review_composition"
      [] node = "review_composition"      -> "END"

\* workflow.set_entry_point("paper_intake")
EntryPoint == "paper_intake"

\* One comma-separated part of the Scoring response after strip(): a string
\* float() accepts, with its value as a numerator over Den, or one it rejects
\* (the empty string included).  The numbers are 1.0, 4.0 and, outside the
\* scale the prompt asks for, 5.0.
Number(n) == [kind |-> "number", value |-> n]

NotANumber == [kind |-> "text", value |-> 0]

ResponseParts == {Number(Den), Number(4 * Den), Number(5 * Den), NotANumber}

\* response.content.strip().split(","): at least one part.
Responses == SeqsUpTo(ResponseParts, MaxParts) \ {<<>>}

\* The neutral default 2.5, as a numerator over Den.
NeutralScore == (5 * Den) \div 2

\* A Scoring node without the except clause: the parse error leaves the node.
OnParseErrorPropagates(parts) == [raised |-> TRUE, scores |-> None]

\* except (ValueError, IndexError): all three scores become 2.5.
OnParseError(parts) ==
    [raised |-> FALSE,
     scores |-> [soundness |-> NeutralScore, presentation |-> NeutralScore,
                 contribution |-> NeutralScore]]

\* The try block of the Scoring node: float(parts[0]), float(parts[1]),
\* float(parts[2]) in this order; the first that is missing (IndexError) or
\* not a number (ValueError) ends it.
ParseScores(parts) ==
    IF /\ parts[1].kind = "number"
       /\ Len(parts) >= 2 /\ parts[2].kind = "number"
       /\ Len(parts) >= 3 /\ parts[3].kind = "number"
    THEN [raised |-> FALSE,
          scores |-> [soundness |-> parts[1].value, presentation |-> parts[2].value,
                      contribution |-> parts[3].value]]
    ELSE OnParseError(parts)

InitReview ==
    /\ PipelineIdle
    /\ PureIdleExcept("review")
    /\ wf_pc = "start"
    /\ wf_node = "none"
    /\ wf_state = InitialReviewState
    /\ wf_trace = <<>>
    /\ wf_response = None
    /\ wf_result = None

\* An exception inside review()'s try block, or an ImportError in
\* _build_workflow: review raises ReviewError.
ReviewRaises ==
    /\ wf_pc' = "raised"
    /\ wf_result' = [kind |-> "ReviewError"]

\* A node returns new_state: the graph hands it to the node's successor.
NodeReturns(name, new_state) ==
    /\ wf_trace' = Append(wf_trace, [node |-> name, read |-> wf_state, wrote |-> new_state])
    /\ wf_state' = new_state
    /\ wf_node' = Successor(name)
    /\ UNCHANGED <<wf_pc, wf_result>>

\* A node whose only step is one llm.ainvoke call, which returns or raises;
\* the node stores what it makes of the response in state[field].
LLMNode(name, field) ==
    /\ wf_pc = "running" /\ wf_node = name
    /\ \/ NodeReturns(name, [wf_state EXCEPT ![field] = name])
       \/ ReviewRaises /\ UNCHANGED <<wf_node, wf_state, wf_trace>>
    /\ UNCHANGED wf_response
    /\ Frame("review")

\* review(): self._build_workflow(), then self._workflow.ainvoke(initial_state)
\* enters the graph at its entry point.
R_BuildWorkflow ==
    /\ wf_pc = "start"
    /\ \/ wf_pc' = "running" /\ wf_node' = EntryPoint /\ UNCHANGED wf_result
       \/ ReviewRaises /\ UNCHANGED wf_node
    /\ UNCHANGED <<wf_state, wf_trace, wf_response>>
    /\ Frame("review")

N_PaperIntake == LLMNode("paper_intake", "title")

N_QueryGeneration == LLMNode("query_generation", "search_queries")

\* related_work_search: the Tavily search, if a key is configured and the
\* search succeeds, fills related_works; its failure is logged and swallowed.
N_RelatedWorkSearch ==
    /\ wf_pc = "running" /\ wf_node = "related_work_search"
    /\ \E works \in {<<>>, <<"work">>} :
           NodeReturns("related_work_search", [wf_state EXCEPT !.related_works = works])
    /\ UNCHANGED wf_response
    /\ Frame("review")

N_StrengthIdentification == LLMNode("strength_identification", "strengths")

N_WeaknessAnalysis == LLMNode("weakness_analysis", "weaknesses")

\* scoring: the LLM call, then the parse of its response into state["scores"].
N_Scoring ==
    /\ wf_pc = "running" /\ wf_node = "scoring"
    /\ \/ \E parts \in Responses :
              LET parsed == ParseScores(parts)
              IN  /\ wf_response' = [parts |-> parts]
                  /\ IF parsed.raised
                     THEN ReviewRaises /\ UNCHANGED <<wf_node, wf_state, wf_trace>>
                     ELSE NodeReturns("scoring", [wf_state EXCEPT !.scores = parsed.scores])
       \/ ReviewRaises /\ UNCHANGED <<wf_node, wf_state, wf_trace, wf_response>>
    /\ Frame("review")

N_ReviewComposition == LLMNode("review_composition", "review_text")

\* review() after ainvoke: the scores (2.5 for a missing key), the overall
\* score and the PeerReview it returns.
R_Return ==
    /\ wf_pc = "running" /\ wf_node = "END"
    /\ LET scores == wf_state.scores
           s == IF scores = None THEN NeutralScore ELSE scores.soundness
           p == IF scores = None THEN NeutralScore ELSE scores.presentation
           c == IF scores = None THEN NeutralScore ELSE scores.contribution
       IN  wf_result' = [kind |-> "PeerReview", review |-> PeerReview(s, p, c)]
    /\ wf_pc' = "done"
    /\ UNCHANGED <<wf_node, wf_state, wf_trace, wf_response>>
    /\ Frame("review")

NextReview ==
    \/ R_BuildWorkflow
    \/ N_PaperIntake
    \/ N_QueryGeneration
    \/ N_RelatedWorkSearch
    \/ N_StrengthIdentification
    \/ N_WeaknessAnalysis
    \/ N_Scoring
    \/ N_ReviewComposition
    \/ R_Return

SpecReview == InitReview /\ [][NextReview]_vars

\* ------------------------------------------------ input_handler.py

\* A source string, by the tests detect_source_type applies to it:
\*   local_pdf  - Path(source).exists() and its suffix is .pdf
\*   arxiv_abs  - ARXIV_PATTERNS[0].search: contains arxiv.org/abs/NNNN.NNNNN
\*   arxiv_pdf  - ARXIV_PATTERNS[1].search: contains arxiv.org/pdf/NNNN.NNNNN
\*   arxiv_bare - ARXIV_PATTERNS[2].search: is NNNN.NNNNN[vN] and nothing else
\*   doi        - DOI_PATTERN.match: is 10.NNNN/... without white space
\*   http       - starts with http:// or https://
\* A bare arXiv id is nothing else; a DOI starts with "10." and so not with
\* "http"; every other combination is the reading of some string.
Sources ==
    {src \in [local_pdf : BOOLEAN, arxiv_abs : BOOLEAN, arxiv_pdf : BOOLEAN,
              arxiv_bare : BOOLEAN, doi : BOOLEAN, http : BOOLEAN] :
        /\ src.arxiv_bare => ~(src.local_pdf \/ src.arxiv_abs \/ src.arxiv_pdf
                               \/ src.doi \/ src.http)
        /\ ~(src.doi /\ src.http)}

Returns(value) == [kind |-> "return", value |-> value]

Raises(exception) == [kind |-> "raise", value |-> exception]

\* detect_source_type that tests for a generic URL before the arXiv patterns.
detect_source_type_url_first(src) ==
    IF src.local_pdf THEN Returns("PDF_FILE")
    ELSE IF src.http THEN Returns("PDF_URL")
    ELSE IF src.arxiv_abs \/ src.arxiv_pdf \/ src.arxiv_bare THEN Returns("ARXIV_ID")
    ELSE IF src.doi THEN Returns("DOI")
    ELSE Raises("InputError")

\* InputHandler.detect_source_type
detect_source_type(src) ==
    IF src.local_pdf THEN Returns("PDF_FILE")
    ELSE IF src.arxiv_abs \/ src.arxiv_pdf \/ src.arxiv_bare THEN Returns("ARXIV_ID")
    ELSE IF src.doi THEN Returns("DOI")
    ELSE IF src.http THEN Returns("PDF_URL")
    ELSE Raises("InputError")

\* URLs fetch_url is given, split at "/": one ends in ".pdf", one does not.
Urls == {<<"https:", "", "example.com", "paper.pdf">>,
         <<"https:", "", "example.com", "paper">>}

\* The name of a file with the suffix .pdf.
PdfName(stem) == <<stem, ".pdf">>

\* The filename argument: None, or the name fetch_arxiv passes.
Filenames == {None, [name |-> PdfName("arxiv_2401.12345")]}

\* filename = url.split("/")[-1], with ".pdf" appended unless it ends so;
\* output_path = self.temp_dir / filename
OutputFile(u, fname) ==
    IF fname # None THEN <<"temp_dir", fname.name>>
    ELSE LET last == u[Len(u)]
         IN  <<"temp_dir", IF last = "paper.pdf" THEN PdfName("paper") ELSE PdfName(last)>>

\* What one session.get does: answers 200, answers another status, fails
\* with an aiohttp.ClientError, or fails with an exception that is not one
\* (the total timeout's asyncio.TimeoutError).
HttpOutcomes == {"200", "status", "ClientError", "TimeoutError"}

\* An except clause that also catches the InputError raised for a status
\* other than 200.
CaughtWithInputError(outcome) == outcome \in {"ClientError", "status"}

\* except aiohttp.ClientError: what the try block's exception must be to be
\* caught and lead to the next iteration.
Caught(outcome) == outcome = "ClientError"

\* A loop that allows one more iteration than max_retries.
LoopContinuesOneMore(i, n) == i <= n

\* for attempt in range(max_retries): iteration i runs if i < max_retries.
LoopContinues(i, n) == i < n

InitInput ==
    /\ PipelineIdle
    /\ PureIdleExcept("input_handler")
    /\ input_call \in {"detect_source_type", "fetch_url"}
    /\ source_type = None
    /\ attempt = 0
    /\ http_log = <<>>
    /\ fetch_result = None
    /\ downloads = {}
    /\ IF input_call = "detect_source_type"
       THEN /\ source \in Sources
            /\ url = <<>> /\ filename = None /\ max_retries = 0
            /\ fetch_pc = "idle"
       ELSE /\ source = NoSource
            /\ url \in Urls
            /\ filename \in Filenames
            /\ max_retries \in 0..MaxRetries
            /\ fetch_pc = "loop"

\* detect_source_type(source)
DetectSourceType ==
    /\ input_call = "detect_source_type" /\ source_type = None
    /\ source_type' = detect_source_type(source)
    /\ UNCHANGED <<input_call, source, url, filename, max_retries, fetch_pc, attempt,
                   http_log, fetch_result, downloads>>
    /\ Frame("input_handler")

\* One iteration of the loop of fetch_url: the GET, and what follows from its
\* outcome.  A 200 writes the file and returns its path.  Another status raises
\* InputError inside the try block, which the except clause for
\* aiohttp.ClientError does not catch.  A ClientError is the end on the last
\* iteration and a retry before it.  Any other exception leaves fetch_url.
F_Attempt ==
    /\ input_call = "fetch_url" /\ fetch_pc = "loop"
    /\ LoopContinues(attempt, max_retries)
    /\ \E outcome \in HttpOutcomes :
           /\ http_log' = Append(http_log, outcome)
           /\ IF outcome = "200"
              THEN /\ downloads' = downloads \cup {OutputFile(url, filename)}
                   /\ fetch_result' = Returns(OutputFile(url, filename))
                   /\ fetch_pc' = "done"
                   /\ UNCHANGED attempt
              ELSE IF Caught(outcome)
              THEN /\ IF attempt = max_retries - 1
                      THEN /\ fetch_result' = Raises("InputError")
                           /\ fetch_pc' = "raised"
                           /\ UNCHANGED attempt
                      ELSE /\ attempt' = attempt + 1
                           /\ UNCHANGED <<fetch_result, fetch_pc>>
                   /\ UNCHANGED downloads
              ELSE /\ fetch_result' = Raises(IF outcome = "status" THEN "InputError"
                                             ELSE "TimeoutError")
                   /\ fetch_pc' = "raised"
                   /\ UNCHANGED <<attempt, downloads>>
    /\ UNCHANGED <<input_call, source, source_type, url, filename, max_retries>>
    /\ Frame("input_handler")

\* The loop ran out of iterations: raise InputError(f"Failed to fetch {url}").
F_Exhausted ==
    /\ input_call = "fetch_url" /\ fetch_pc = "loop"
    /\ ~LoopContinues(attempt, max_retries)
    /\ fetch_result' = Raises("InputError")
    /\ fetch_pc' = "raised"
    /\ UNCHANGED <<input_call, source, source_type, url, filename, max_retries, attempt,
                   http_log, downloads>>
    /\ Frame("input_handler")

NextInput == DetectSourceType \/ F_Attempt \/ F_Exhausted

SpecInput == InitInput /\ [][NextInput]_vars

\* ------------------------------------------------ ocr_engine.py: references

\* A line of the text by what _extract_references tests on it after strip():
\* empty, the References/Bibliography/Works Cited heading, another heading of
\* level 1 or 2 followed by a word, an entry matched by _bracketed, by _numbered
\* or by _apa with more than 20 characters, or none of these.  A line starts
\* with one character, so no line is of two kinds.
ReferenceLineKinds ==
    {"blank", "ref_heading", "heading", "bracketed", "numbered", "apa", "plain"}

\* f"ref_{n:03d}"
RefId(n) == [prefix |-> "ref_", digits |-> Pad3(n)]

\* Reference(id=..., text=...): the text is group 2 of the match or the whole
\* stripped line, kept here as the line it was taken from.
Reference(n, i, part) == [id |-> RefId(n), text |-> [line |-> i, part |-> part]]

\* ref_section = False, with the region open from the first line on.
RefSectionInitiallyOpen == TRUE

\* ref_section = False
RefSectionInitially == FALSE

\* The loop of _extract_references from line i on.
RECURSIVE ReferenceLoop(_, _, _, _, _)
ReferenceLoop(lines, i, ref_section, ref_counter, refs) ==
    IF i > Len(lines) THEN refs
    ELSE LET kind == lines[i] IN
         IF kind = "blank" THEN ReferenceLoop(lines, i + 1, ref_section, ref_counter, refs)
         ELSE IF kind = "ref_heading"
         THEN ReferenceLoop(lines, i + 1, TRUE, ref_counter, refs)
         ELSE IF ~ref_section
         THEN ReferenceLoop(lines, i + 1, ref_section, ref_counter, refs)
         ELSE IF kind = "heading" /\ ref_counter # 0 THEN refs
         ELSE IF kind \in {"bracketed", "numbered"}
         THEN ReferenceLoop(lines, i + 1, ref_section, ref_counter + 1,
                            Append(refs, Reference(ref_counter + 1, i, "group2")))
         ELSE IF kind = "apa"
         THEN ReferenceLoop(lines, i + 1, ref_section, ref_counter + 1,
                            Append(refs, Reference(ref_counter + 1, i, "stripped")))
         ELSE ReferenceLoop(lines, i + 1, ref_section, ref_counter, refs)

extract_references(lines) == ReferenceLoop(lines, 1, RefSectionInitially, 0, <<>>)

InitReferences ==
    /\ PipelineIdle
    /\ PureIdleExcept("extract_references")
    /\ reference_text \in SeqsUpTo(ReferenceLineKinds, MaxReferenceLines)
    /\ references = None

\* references = self._extract_references(text)
ExtractReferences ==
    /\ references = None
    /\ references' = [items |-> extract_references(reference_text)]
    /\ UNCHANGED reference_text
    /\ Frame("extract_references")

NextReferences == ExtractReferences

SpecReferences == InitReferences /\ [][NextReferences]_vars

\* ------------------------------------------------ report_generator.py: save_all

\* The expression whose value save_all writes at each path.
SaveAllText(rep, path) ==
    CASE path = <<"report.md">>                  -> [text |-> "generate_report(report)"]
      [] path = <<"key_points.md">>              -> [text |-> "generate_key_points(report)"]
      [] path = <<"spec_output.md">>             -> [text |-> "generate_spec_output(report)"]
      [] path = <<"report.html">>                -> [text |-> "generate_html_report(report)"]
      [] path = <<"review.md">>                  -> [text |-> "report.review.raw_review"]
      [] path = <<"extracted", "full_text.md">>  -> [text |-> "extracted_content.full_text"]
      [] path = <<"extracted", "equations.json">> -> [text |-> "json.dumps(equations_data)"]
      [] path = <<"extracted", "tables.json">>   -> [text |-> "json.dumps(tables_data)"]
      [] path = <<"metadata.json">>              -> Metadata(rep)

\* ReportGenerator.save_all(report, output_dir): the directory as it leaves it.
save_all(rep) == [path \in SaveAllWrites(rep) |-> SaveAllText(rep, path)]

\* The reports save_all is called with: with and without a review, with
\* storm_report None, empty or an article.
SavedReports ==
    {[AnalysisReport(opts, rev, <<>>) EXCEPT !.storm_report = article] :
        opts \in AnalysisOptions,
        rev \in {None} \cup {PeerReview(w[1], w[2], w[3]) : w \in WorkflowScores},
        article \in {NoText} \cup Articles}

InitSave ==
    /\ PipelineIdle
    /\ PureIdleExcept("save_all")
    /\ save_report \in SavedReports
    /\ save_files = None

\* ReportGenerator().save_all(report, output_dir)
SaveAll ==
    /\ save_files = None
    /\ save_files' = [written |-> save_all(save_report)]
    /\ UNCHANGED save_report
    /\ Frame("save_all")

NextSave == SaveAll

SpecSave == InitSave /\ [][NextSave]_vars

\* ------------------------------------------------ storm_reporter.py: forward

\* self.chunks, by url: the abstract, two sections and the references of a paper.
ChunkUrls == <<"paper://abstract", "paper://method", "paper://references">>

\* A query, by the score the word count gives each chunk: 0 when no word of
\* the query occurs in the chunk, 1 when some do.
Queries == [DOMAIN ChunkUrls -> {0, 1}]

\* The chunks of scored with the given score, in their order.
WithScore(scored, s) == SelectSeq(scored, LAMBDA c : c.score = s)

\* scored.sort(key=lambda x: x[0], reverse=True): a stable sort, highest score
\* first.
SortByScore(scored) == WithScore(scored, 1) \o WithScore(scored, 0)

\* The scoring loop: every chunk whose url is not in seen, with its score.
Scored(query, seen) ==
    SelectSeq([i \in DOMAIN ChunkUrls |-> [score |-> query[i], url |-> ChunkUrls[i]]],
              LAMBDA c : c.url \notin seen)

\* for _, chunk in scored[: self.k]: append the chunk unless its url was seen.
RECURSIVE AppendUnseen(_, _, _)
AppendUnseen(top, seen, results) ==
    IF top = <<>> THEN [seen |-> seen, results |-> results]
    ELSE IF Head(top).url \in seen THEN AppendUnseen(Tail(top), seen, results)
    ELSE AppendUnseen(Tail(top), seen \cup {Head(top).url}, Append(results, Head(top).url))

\* for query in queries: ... ; the results of all queries in one list.
RECURSIVE ForwardLoop(_, _, _, _)
ForwardLoop(queries, k, seen, results) ==
    IF queries = <<>> THEN results
    ELSE LET scored == SortByScore(Scored(Head(queries), seen))
             \* scored[: self.k]
             top == SubSeq(scored, 1, IF k < Len(scored) THEN k ELSE Len(scored))
             r == AppendUnseen(top, seen, results)
         IN  ForwardLoop(Tail(queries), k, r.seen, r.results)

\* PaperContentRM.forward(query_or_queries, exclude_urls): a string is one
\* query; exclude_urls None is the empty set.
forward(k, q, exclude) ==
    LET queries == IF q.kind = "str" THEN <<q.query>> ELSE q.queries
        seen == IF exclude = None THEN {} ELSE exclude.urls
    IN  ForwardLoop(queries, k, seen, <<>>)

InitForward ==
    /\ PipelineIdle
    /\ PureIdleExcept("forward")
    /\ rm_k \in 1..MaxK
    /\ query_or_queries \in
           {[kind |-> "str", query |-> q] : q \in Queries}
           \cup {[kind |-> "list", queries |-> qs] : qs \in SeqsUpTo(Queries, MaxQueries)}
    /\ exclude_urls \in {None} \cup {[urls |-> u] : u \in SUBSET Range(ChunkUrls)}
    /\ forward_results = None

\* results = rm.forward(query_or_queries, exclude_urls)
Forward ==
    /\ forward_results = None
    /\ forward_results' = [items |-> forward(rm_k, query_or_queries, exclude_urls)]
    /\ UNCHANGED <<rm_k, query_or_queries, exclude_urls>>
    /\ Frame("forward")

NextForward == Forward

SpecForward == InitForward /\ [][NextForward]_vars

\* ------------------------------------------------ analyser.py: summaries

\* A stripped text, by its first 200 characters (head) and what follows them.
Text(head, rest) == [head |-> head, rest |-> rest]

EmptyText == Text("", "")

\* The abstract, and the texts a section's content[:500].strip() or a slice of
\* the full text can be: empty, a text that starts as the abstract does and
\* goes on differently, a text that starts differently.
AbstractText == Text("abstract head", "abstract rest")

SummaryTexts == {EmptyText, Text("abstract head", "section rest"), Text("section head", "")}

\* t[:200]
First200(t) == t.head

\* t[:500] of a stripped text of at most 500 characters.
First500(t) == t

\* A section, by the tier whose keyword list accepts it (title keywords are
\* tried on every section before content keywords are) and its text.
SummarySections == [match : {"title", "content", "none"}, text : SummaryTexts]

\* content.full_text, by its length against the thresholds 500, 1000 and 2000
\* and by the slice the extractor called takes from it, stripped.
FullTexts ==
    {[size |-> 500, slice |-> EmptyText]}
    \cup [size : {1000, 2000, 2001}, slice : SummaryTexts]

\* _distinct(text): non-empty and its first 200 characters are not the abstract's.
Distinct(text, abstract) == text # EmptyText /\ First200(text) # First200(abstract)

\* The first section of secs that the tier accepts and whose text is distinct.
RECURSIVE FirstDistinct(_, _, _)
FirstDistinct(secs, accepts, abstract) ==
    IF secs = <<>> THEN None
    ELSE IF Head(secs).match \in accepts /\ Distinct(Head(secs).text, abstract)
    THEN [text |-> Head(secs).text]
    ELSE FirstDistinct(Tail(secs), accepts, abstract)

AnyMatch == {"title", "content", "none"}

Reverse(s) == [i \in DOMAIN s |-> s[Len(s) + 1 - i]]

\* ResearchAnalyser._extract_methodology_summary
extract_methodology_summary(content) ==
    LET abstract == content.abstract
        secs == content.sections
        tier1 == FirstDistinct(secs, {"title"}, abstract)
        tier2 == FirstDistinct(secs, {"title", "content"}, abstract)
        tier3 == IF Len(secs) > 1
                 THEN FirstDistinct(SubSeq(secs, 2, IF Len(secs) < 5 THEN Len(secs) ELSE 5),
                                    AnyMatch, abstract)
                 ELSE None
    IN  IF tier1 # None THEN tier1.text
        ELSE IF tier2 # None THEN tier2.text
        ELSE IF tier3 # None THEN tier3.text
        ELSE IF content.full_text.size > 1000 THEN content.full_text.slice
        ELSE IF abstract # EmptyText THEN First500(abstract) ELSE EmptyText

\* ResearchAnalyser._extract_results_summary
extract_results_summary(content) ==
    LET abstract == content.abstract
        secs == content.sections
        mid == Len(secs) \div 2
        tier1 == FirstDistinct(secs, {"title"}, abstract)
        tier2 == FirstDistinct(SubSeq(secs, mid + 1, Len(secs)), {"title", "content"}, abstract)
        tier3 == IF Len(secs) >= 3
                 THEN FirstDistinct(Reverse(SubSeq(secs, 1, Len(secs) - 1)), AnyMatch, abstract)
                 ELSE None
    IN  IF tier1 # None THEN tier1.text
        ELSE IF tier2 # None THEN tier2.text
        ELSE IF tier3 # None THEN tier3.text
        ELSE IF content.full_text.size > 2000 THEN content.full_text.slice
        ELSE IF content.full_text.size > 500 THEN content.full_text.slice
        ELSE EmptyText

InitSummary ==
    /\ PipelineIdle
    /\ PureIdleExcept("summary")
    /\ summary_call \in {"methodology", "results"}
    /\ summary_content \in
           [abstract  : {EmptyText, AbstractText},
            sections  : SeqsUpTo(SummarySections, MaxSummarySections),
            full_text : FullTexts]
    /\ summary = None

\* methodology_summary=self._extract_methodology_summary(content)
ExtractMethodologySummary ==
    /\ summary_call = "methodology" /\ summary = None
    /\ summary' = [text |-> extract_methodology_summary(summary_content)]
    /\ UNCHANGED <<summary_call, summary_content>>
    /\ Frame("summary")

\* results_summary=self._extract_results_summary(content)
ExtractResultsSummary ==
    /\ summary_call = "results" /\ summary = None
    /\ summary' = [text |-> extract_results_summary(summary_content)]
    /\ UNCHANGED <<summary_call, summary_content>>
    /\ Frame("summary")

NextSummary == ExtractMethodologySummary \/ ExtractResultsSummary

SpecSummary == InitSummary /\ [][NextSummary]_vars

\* ------------------------------------------------ api.py: the job store

\* jobs[job_id] = {"status": "queued", "report": None, "error": None}
QueuedJob == [status |-> "queued", report |-> None, error |-> None]

\* jobs[job_id]["status"] = "processing"
Processing(job) == [job EXCEPT !.status = "processing"]

\* A success path that sets the status and leaves the report unset.
CompletedWithoutReport(job, json) == [job EXCEPT !.status = "completed"]

\* jobs[job_id]["status"] = "completed"; jobs[job_id]["report"] = report.to_json()
Completed(job, json) == [job EXCEPT !.status = "completed", !.report = [json |-> json]]

\* jobs[job_id]["status"] = "failed"; jobs[job_id]["error"] = str(e)
Failed(job, text) == [job EXCEPT !.status = "failed", !.error = [text |-> text]]

\* How the awaited analyser.analyse and the report.to_json() after it end:
\* a report that serialises, a report whose to_json raises, an Exception, or
\* a cancellation (a BaseException, which the handler does not catch).
AnalysisEnds ==
    {[kind |-> "report", text |-> ""], [kind |-> "cancelled", text |-> ""]}
    \cup {[kind |-> k, text |-> t] : k \in {"to_json raises", "raise"}, t \in ExcTexts}

InitApi ==
    /\ PipelineIdle
    /\ PureIdleExcept("api")
    /\ ApiIdle

\* POST /api/v1/analyse with a file or a source: the job is stored as queued
\* under a fresh uuid and its background task is created.
AnalysePaper(j) ==
    /\ jobs[j] = None
    /\ jobs' = [jobs EXCEPT ![j] = QueuedJob]
    /\ job_task' = [job_task EXCEPT ![j] = "created"]
    /\ UNCHANGED job_response
    /\ Frame("api")

\* _run_analysis from its start to the await of analyser.analyse.
RunAnalysisStart(j) ==
    /\ job_task[j] = "created"
    /\ jobs' = [jobs EXCEPT ![j] = Processing(jobs[j])]
    /\ job_task' = [job_task EXCEPT ![j] = "awaiting"]
    /\ UNCHANGED job_response
    /\ Frame("api")

\* _run_analysis after the await: no other coroutine runs between its
\* resumption and its end.
RunAnalysisEnd(j) ==
    /\ job_task[j] = "awaiting"
    /\ \E end \in AnalysisEnds :
           jobs' = [jobs EXCEPT ![j] =
                       CASE end.kind = "report"         -> Completed(jobs[j], "report.to_json()")
                         [] end.kind = "to_json raises" ->
                                Failed([jobs[j] EXCEPT !.status = "completed"], end.text)
                         [] end.kind = "raise"          -> Failed(jobs[j], end.text)
                         [] end.kind = "cancelled"      -> jobs[j]]
    /\ job_task' = [job_task EXCEPT ![j] = "ended"]
    /\ UNCHANGED job_response
    /\ Frame("api")

\* GET /api/v1/analyse/{job_id}
GetJobStatus(j) ==
    /\ job_response' =
           IF jobs[j] = None THEN [status_code |-> 404]
           ELSE [job_id |-> j, status |-> jobs[j].status, report |-> jobs[j].report,
                 error |-> jobs[j].error]
    /\ job_response' # job_response
    /\ UNCHANGED <<jobs, job_task>>
    /\ Frame("api")

NextApi ==
    \E j \in JobIds :
        \/ AnalysePaper(j)
        \/ RunAnalysisStart(j)
        \/ RunAnalysisEnd(j)
        \/ GetJobStatus(j)

SpecApi == InitApi /\ [][NextApi]_vars

\* ------------------------------------------------ ocr_engine.py: the table scanner's loop

\* The kinds of line the table scanner tells apart (a figure caption is a
\* plain line to it).
ScanLineKinds == LineKinds \ {"figcap"}

InitScan ==
    /\ PipelineIdle
    /\ PureIdleExcept("scan_tables")
    /\ scan_pc = "loop"
    /\ scan_lines \in SeqsUpTo(ScanLineKinds, MaxScanLines)
    /\ scan_i = 1
    /\ scan_counter = 0
    /\ scan_tables = <<>>
    /\ scan_iterations = 0
    /\ scan_examined = [k \in DOMAIN scan_lines |-> 0]

\* One iteration of the outer loop on a pipe line: the inner loop collects
\* the run of pipe lines into table_lines, and the run becomes a Table if it
\* has three lines or more and its second line is a separator.
ScanCandidate ==
    /\ scan_pc = "loop" /\ scan_i <= Len(scan_lines)
    /\ IsPipeLine(scan_lines[scan_i])
    /\ LET j == RunEnd(scan_lines, scan_i)
           is_table == j - scan_i >= 3 /\ scan_lines[scan_i + 1] = "sep"
       IN  /\ scan_i' = j
           /\ scan_examined' = [k \in DOMAIN scan_lines |->
                                   IF scan_i <= k /\ k < j THEN scan_examined[k] + 1
                                   ELSE scan_examined[k]]
           /\ scan_counter' = IF is_table THEN scan_counter + 1 ELSE scan_counter
           /\ scan_tables' =
                  IF is_table
                  THEN Append(scan_tables,
                              [id |-> TableId(scan_counter + 1),
                               content |-> <<"lines", scan_i, j - 1>>,
                               caption |-> IF j <= Len(scan_lines) /\ scan_lines[j] = "tablecap"
                                           THEN "caption" ELSE NoText,
                               rows |-> j - scan_i - 2])
                  ELSE scan_tables
    /\ scan_iterations' = scan_iterations + 1
    /\ UNCHANGED <<scan_pc, scan_lines>>
    /\ Frame("scan_tables")

\* One iteration on any other line: i += 1.
ScanSkip ==
    /\ scan_pc = "loop" /\ scan_i <= Len(scan_lines)
    /\ ~IsPipeLine(scan_lines[scan_i])
    /\ scan_i' = scan_i + 1
    /\ scan_iterations' = scan_iterations + 1
    /\ UNCHANGED <<scan_pc, scan_lines, scan_counter, scan_tables, scan_examined>>
    /\ Frame("scan_tables")

\* while i < len(lines) is false: return tables.
ScanReturn ==
    /\ scan_pc = "loop" /\ scan_i > Len(scan_lines)
    /\ scan_pc' = "done"
    /\ UNCHANGED <<scan_lines, scan_i, scan_counter, scan_tables, scan_iterations,
                   scan_examined>>
    /\ Frame("scan_tables")

NextScan == ScanCandidate \/ ScanSkip \/ ScanReturn

SpecScan == InitScan /\ [][NextScan]_vars

\* ================================================================ properties


\* stage a was started before stage b (both were started).
StartedBefore(a, b) ==
    \E i, j \in 1..Len(stages) : i < j /\ stages[i] = a /\ stages[j] = b

Orchestrated == entry \in {"analyse", "worker"}

\* The run went past the join of the fan-out.
PastGather == Orchestrated /\ "save_all" \in Range(stages)

\* The run ended without an error: analyse returned, the worker stored a report.
EndedWithReport ==
    /\ pc = "done"
    /\ report # None
    /\ persisted # None
    /\ entry = "analyse" => returned = report /\ exc = "none"
    /\ entry = "worker" => run_state.report = report /\ run_state.error = NoText

\* A branch of the fan-out raised.
FanOutFailed == env.diagrams = "raise" \/ env.review = "raise"

\* C1: in the primary fan-out an exception raised by the diagram branch or the
\* review branch never aborts the other branch or the run.  The gather is left
\* only when every launched branch has finished; a branch that returned has its
\* result in the report and a branch that raised contributes nothing
\* (diagrams = <<>>, review = None); no exception leaves the run because of it,
\* and the run ends with the report assembled, persisted and returned.
C1_BranchFailureIsolated ==
    Orchestrated =>
        /\ pc # "gather" /\ pc # "fanout" /\ env.extract = "ok" =>
               \A b \in {"diagrams", "review"} : branch[b] # "running"
        /\ FanOutFailed => exc = "none" /\ pc # "raised" /\ run_state.error = NoText
        /\ report # None =>
               /\ report.diagrams = IF branch.diagrams = "returned"
                                    THEN branch_result.diagrams.items ELSE <<>>
               /\ report.review = IF branch.review = "returned"
                                  THEN branch_result.review.value ELSE None
        /\ FanOutFailed /\ pc = "done" => EndedWithReport
        /\ FanOutFailed /\ pc # "done" => ENABLED Next

\* analyse returned a report that carries the review although the diagram
\* branch raised.
C1_Witness ==
    /\ entry = "analyse" /\ pc = "done"
    /\ env.diagrams = "raise" /\ env.review = "ok"
    /\ returned # None /\ returned.review # None /\ returned.diagrams = <<>>

\* Resolve or Extract raised.
FatalFailed == env.resolve = "raise" \/ env.extract = "raise"

\* C2: Resolve and Extract are sequential and fatal.  If resolve or extract
\* raises, the exception leaves analyse; Extract is never started after a failed
\* Resolve (nor before Resolve), no fan-out task is started, save_all is never
\* called and no report is returned.
C2_ResolveExtractFatal ==
    Orchestrated =>
        /\ "extract" \in Range(stages) => env.resolve = "ok"
        /\ env.resolve = "raise" => env.extract = "none"
        /\ FatalFailed =>
               /\ branch = [diagrams |-> "none", review |-> "none"]
               /\ env.diagrams = "none" /\ env.review = "none"
               /\ Range(stages) \subseteq {"resolve", "extract"}
               /\ persisted = None /\ files = {}
               /\ report = None /\ returned = None /\ run_state.report = None
        /\ FatalFailed /\ entry = "analyse" =>
               /\ pc = "raised"
               /\ exc = IF env.resolve = "raise" THEN "InputError" ELSE "ExtractionError"
        /\ FatalFailed /\ entry = "worker" =>
               pc = "done" /\ run_state.done /\ run_state.error # NoText

\* extract raised after a successful resolve and the error left analyse.
C2_Witness ==
    /\ entry = "analyse" /\ pc = "raised"
    /\ env.resolve = "ok" /\ env.extract = "raise"
    /\ options.generate_diagrams /\ options.generate_review
    /\ exc = "ExtractionError"

\* C3: secondary stages run only if requested and only after the primary report
\* was assembled and persisted.  The STORM stage has started only if
\* options.generate_storm_report and config.storm.enabled are both true, the
\* audio stage only if options.generate_audio is true, and each only after
\* save_all completed.
C3_SecondaryOnlyAfterSave ==
    Orchestrated =>
        /\ "storm" \in Range(stages) =>
               /\ options.generate_storm_report /\ storm_enabled
               /\ persisted # None /\ StartedBefore("save_all", "storm")
        /\ "audio" \in Range(stages) =>
               /\ options.generate_audio
               /\ persisted # None /\ StartedBefore("save_all", "audio")
        /\ env.storm # "none" => "storm" \in Range(stages)
        /\ env.audio # "none" => "audio" \in Range(stages)

\* Both secondary stages ran in one run.
C3_Witness ==
    /\ Orchestrated /\ pc = "done"
    /\ "storm" \in Range(stages) /\ "audio" \in Range(stages)
    /\ env.storm = "ok" /\ env.audio = "ok"

\* The report but for the article the STORM stage may have added.
WithoutArticle(rep) == [rep EXCEPT !.storm_report = NoText]

\* C4: a secondary-stage failure degrades to "feature absent".  If STORM or audio
\* raises, no exception leaves the run, the report returned is the one that was
\* assembled and persisted before the stage started (a failed STORM leaves it as
\* it was; audio never changes it), and a STORM failure does not keep a requested
\* audio stage from running.
C4_SecondaryFailureDegrades ==
    Orchestrated =>
        /\ env.storm = "raise" \/ env.audio = "raise" =>
               exc = "none" /\ pc # "raised" /\ run_state.error = NoText
        /\ env.storm = "raise" => report = assembled
        /\ report # None => WithoutArticle(report) = WithoutArticle(assembled)
        /\ (env.storm = "raise" \/ env.audio = "raise") /\ pc = "done" => EndedWithReport
        /\ env.storm = "raise" /\ pc = "done" /\ options.generate_audio =>
               "audio" \in Range(stages) /\ env.audio # "none"

\* STORM raised, audio still ran, and the assembled report was returned.
C4_Witness ==
    /\ entry = "analyse" /\ pc = "done"
    /\ env.storm = "raise" /\ env.audio = "ok"
    /\ returned = assembled /\ returned # None

\* Positions of the request whose type is one of the three recognized ones.
KnownPositions == {i \in 1..Len(diagram_types) : diagram_types[i] \in KnownTypes}

\* C5: diagram generation for a recognized type whose diagram-service call fails
\* (any exception) yields exactly one GeneratedDiagram of that type with
\* is_fallback = TRUE, a non-empty error and an image file that exists, and the
\* returned list holds one diagram per recognized requested type.
C5_FallbackCarriesError ==
    entry = "generate" =>
        /\ \A i \in KnownPositions :
               task[i] = "done" /\ i \in fallback_calls =>
                   /\ task_result[i].kind = "diagram"
                   /\ task_result[i].diagram.diagram_type = diagram_types[i]
                   /\ task_result[i].diagram.is_fallback
                   /\ task_result[i].diagram.error # ""
                   /\ task_result[i].diagram.error # NoText
                   /\ task_result[i].diagram.image_path \in files
        /\ pc = "done" => Len(generated.items) = Cardinality(KnownPositions)

ReviewDisabledReport ==
    AnalysisReport([options EXCEPT !.generate_review = FALSE], None, assembled.diagrams)

DiagramsDisabledReport ==
    AnalysisReport([options EXCEPT !.generate_diagrams = FALSE], assembled.review, <<>>)

\* C7: the final report distinguishes "stage not requested" from "stage
\* requested but failed": a run whose review (diagram) branch raised produces a
\* report and persisted metadata that differ from those of the run with that
\* stage disabled.
C7_FailureDistinguishable ==
    Orchestrated /\ persisted # None =>
        /\ options.generate_review /\ env.review = "raise" =>
               /\ assembled # ReviewDisabledReport
               /\ persisted # Metadata(ReviewDisabledReport)
        /\ options.generate_diagrams /\ env.diagrams = "raise" =>
               /\ assembled # DiagramsDisabledReport
               /\ persisted # Metadata(DiagramsDisabledReport)

IsPrefix(a, b) == Len(a) <= Len(b) /\ \A i \in 1..Len(a) : a[i] = b[i]

NonDecreasing(log) == \A i \in 1..(Len(log) - 1) : log[i].pct <= log[i + 1].pct

\* C8: the worker's progress log is append-only and its percentages never
\* decrease: every step leaves the events already logged in place and any event
\* it appends has a percentage at least that of the event before it.
C8_ProgressMonotone ==
    [][/\ IsPrefix(run_state.progress, run_state'.progress)
       /\ NonDecreasing(run_state'.progress)]_vars

\* A worker run with every stage enabled in which STORM and audio both failed:
\* all fourteen milestones are in the log.
C8_Witness ==
    /\ entry = "worker" /\ pc = "done"
    /\ env.storm = "raise" /\ env.audio = "raise"
    /\ Len(run_state.progress) = 14
    /\ run_state.progress[14].pct = 100

\* The stages of a complete run of analyse, from the options alone.
ExpectedStages ==
    <<"resolve", "extract">> \o LaunchedStages \o <<"save_all">>
    \o (IF options.generate_storm_report /\ storm_enabled THEN <<"storm">> ELSE <<>>)
    \o (IF options.generate_audio THEN <<"audio">> ELSE <<>>)

\* The report of a complete run, from what the collaborators returned.
ExpectedReport ==
    [paper_input  |-> [analysis_options |-> options],
     review       |-> IF env.review = "ok" THEN branch_result.review.value ELSE None,
     diagrams     |-> IF env.diagrams = "ok" THEN branch_result.diagrams.items ELSE <<>>,
     storm_report |-> IF env.storm = "ok" THEN CHOOSE a \in Articles : a # ""
                      ELSE IF env.storm = "empty" THEN ""
                      ELSE NoText]

\* C9: a progress callback that raises does not affect the pipeline.  Whatever
\* on_progress does, an exception leaves analyse only if a collaborator of
\* Resolve or Extract raised, a complete run starts exactly the stages its
\* options ask for and returns the report its collaborators' results determine;
\* and generate never raises, loses no task to the callback and returns one
\* diagram per recognized type.
C9_CallbackCannotInterfere ==
    /\ entry = "analyse" =>
           /\ exc # "none" => env.detect = "raise" \/ FatalFailed
           /\ pc = "raised" => exc # "none"
           /\ pc = "done" => stages = ExpectedStages /\ returned = ExpectedReport
    /\ entry = "generate" =>
           /\ pc # "raised"
           /\ \A i \in 1..Len(diagram_types) : task_result[i].kind # "exception"
           /\ pc = "done" => Len(generated.items) = Cardinality(KnownPositions)
                             /\ generated.items = CollectDiagrams(task_result)

\* analyse completed with every stage although each call of on_progress raised.
C9_Witness ==
    /\ entry = "analyse" /\ pc = "done"
    /\ has_callback /\ cb_raised /\ cb_log = <<>>
    /\ stages = <<"resolve", "extract", "diagrams", "review", "save_all", "storm", "audio">>
    /\ returned # None

\* C10: compute_final_score lies in [1, 10] for every input, inside [1,4]^3 and,
\* because of the clamp, outside it; compute_final_score(0, 0, 0) = 1.0.
C10_ScoreInRange ==
    final_score # None =>
        /\ Units(1) <= final_score.value
        /\ final_score.value <= Units(10)
        /\ dimension_scores = <<0, 0, 0>> => final_score.value = Units(1)

\* The score of (0, 0, 0), whose raw value is below 1, was computed.
C10_Witness ==
    /\ final_score # None
    /\ dimension_scores = <<0, 0, 0>>
    /\ RawScore(0, 0, 0) < Units(1)
    /\ final_score.value = Units(1)

\* The valid domain [1, 4] of a dimension score, as numerators over Den.
ValidNumerators == Den..(4 * Den)

\* C11: on the valid domain [1,4]^3 compute_final_score equals
\* -0.3057 + 0.7134 S + 0.4242 P + 1.0588 C (the clamp is inactive), so a +1
\* step in C, S or P inside the domain changes the score by exactly 1.0588,
\* 0.7134 and 0.4242, and these deltas are ordered C > S > P.
C11_LinearOnValidDomain ==
    (final_score # None /\ \A k \in 1..3 : dimension_scores[k] \in ValidNumerators) =>
        LET S == dimension_scores[1]
            P == dimension_scores[2]
            C == dimension_scores[3]
        IN  /\ final_score.value = Den * (-3057) + 7134 * S + 4242 * P + 10588 * C
            /\ C + Den \in ValidNumerators =>
                   compute_final_score(S, P, C + Den) - final_score.value = 10588 * Den
            /\ S + Den \in ValidNumerators =>
                   compute_final_score(S + Den, P, C) - final_score.value = 7134 * Den
            /\ P + Den \in ValidNumerators =>
                   compute_final_score(S, P + Den, C) - final_score.value = 4242 * Den
            /\ WEIGHT_CONTRIBUTION > WEIGHT_SOUNDNESS
            /\ WEIGHT_SOUNDNESS > WEIGHT_PRESENTATION

\* The score of (3, 3, 3) was computed: 6.2835.
C11_Witness ==
    /\ final_score # None
    /\ dimension_scores = <<3 * Den, 3 * Den, 3 * Den>>
    /\ final_score.value = 62835 * Den

\* The seven decision labels.
DecisionLabels == {SCORE_LABELS[i].label : i \in DOMAIN SCORE_LABELS}

\* C12: interpret_score maps every score in [1, 10] to exactly one of the seven
\* labels, never "Unknown": the label of the band [low, high) that contains
\* it, a boundary value 3, 4, 5, 6, 7 or 8 taking the higher band and 10.0
\* taking "Strong Accept"; so the label of any compute_final_score value is
\* one of the seven.
C12_InterpretTotalOnRange ==
    (decision # None /\ Units(1) <= score.value /\ score.value <= Units(10)) =>
        /\ decision.label \in DecisionLabels
        /\ \A i \in DOMAIN SCORE_LABELS :
               SCORE_LABELS[i].low <= score.value /\ score.value < SCORE_LABELS[i].high
                   => decision.label = SCORE_LABELS[i].label
        /\ \A i \in 2..Len(SCORE_LABELS) :
               score.value = SCORE_LABELS[i].low => decision.label = SCORE_LABELS[i].label
        /\ score.value = Units(10) => decision.label = "Strong Accept"
        /\ \A s, p, c \in {-MaxNum, 0, Den, 2 * Den, 3 * Den, 4 * Den, MaxNum} :
               interpret_score(compute_final_score(s, p, c)) \in DecisionLabels

\* The boundary 7.0 was interpreted, as "Accept".
C12_Witness ==
    /\ decision # None
    /\ score.value = Units(7)
    /\ decision.label = "Accept"

RECURSIVE DigitsValue(_)
\* int(digits): the number a sequence of decimal digits denotes.
DigitsValue(d) ==
    IF d = <<>> THEN 0 ELSE 10 * DigitsValue(SubSeq(d, 1, Len(d) - 1)) + d[Len(d)]

\* The position of a display form in DISPLAY_EQUATION_PATTERNS.
PatternIndex(form) == CHOOSE k \in DOMAIN DISPLAY_EQUATION_PATTERNS :
                          DISPLAY_EQUATION_PATTERNS[k] = form

\* C13: in the list extract_equations returns, the ids are pairwise distinct and
\* their numeric parts strictly increase with list position; display entries
\* come first, grouped by matcher in matcher order and in text order within a
\* matcher, then the inline entries in text order.
C13_EquationIdsIncrease ==
    equations # None =>
        LET eqs == equations.items
        IN  \A i, j \in 1..Len(eqs) :
                i < j =>
                    /\ eqs[i].id # eqs[j].id
                    /\ eqs[i].id.prefix = "eq_"
                    /\ DigitsValue(eqs[i].id.digits) < DigitsValue(eqs[j].id.digits)
                    /\ eqs[i].is_inline => eqs[j].is_inline
                    /\ ~eqs[i].is_inline /\ ~eqs[j].is_inline =>
                           \/ PatternIndex(eqs[i].latex) < PatternIndex(eqs[j].latex)
                           \/ /\ eqs[i].latex = eqs[j].latex
                              /\ eqs[i].start < eqs[j].start
                    /\ eqs[i].is_inline /\ eqs[j].is_inline => eqs[i].start < eqs[j].start

\* A mixed pass: an inline match comes before a display match in the text, and
\* both are in the result, the display one first.
C13_Witness ==
    /\ equations # None
    /\ Len(equations.items) = 3
    /\ ~equations.items[1].is_inline
    /\ equations.items[3].is_inline
    /\ equations.items[3].start < equations.items[1].start

\* C14: no two entries of the document's equations share an id, also when short
\* inline matches were discarded in the markdown pass and the equations of a
\* TeX source are renumbered and appended.
C14_DocumentEquationIdsUnique ==
    document_equations # None =>
        \A i, j \in 1..Len(document_equations.items) :
            i # j => document_equations.items[i].id # document_equations.items[j].id

\* Every entry of items was built from a block (kind "block") or from lines of
\* the text (kind "lines").
AllDerivedFrom(items, kind) == \A i \in 1..Len(items) : items[i].content[1] = kind

\* Unmixed(items, bs, wanted): the list has one entry per block of a wanted
\* type and nothing from the text if there is such a block, and only entries
\* from the text otherwise.
Unmixed(items, bs, wanted) ==
    LET primary == {i \in 1..Len(bs) : bs[i] \in wanted}
    IN  /\ primary # {} => /\ AllDerivedFrom(items, "block")
                           /\ {items[i].content[2] : i \in 1..Len(items)} = primary
                           /\ Len(items) = Cardinality(primary)
        /\ primary = {} => AllDerivedFrom(items, "lines")

\* C15: the text-pattern fallback for tables, and likewise for figures, is used
\* exactly when the block-derived list is empty and is never merged with it:
\* the returned list is the block-derived list when that is non-empty, and
\* otherwise the text-derived list, so it never holds entries of both origins.
C15_FallbackOnlyWhenPrimaryEmpty ==
    /\ tables # None =>
           /\ Unmixed(tables.items, blocks, TableBlockTypes)
           /\ TablesFromBlocks(blocks) = <<>> =>
                  tables.items = extract_tables_from_markdown(markdown_lines)
    /\ figures # None =>
           /\ Unmixed(figures.items, blocks, FigureBlockTypes)
           /\ FiguresFromBlocks(blocks) = <<>> =>
                  figures.items = extract_figures_from_markdown(markdown_lines)

\* The blocks hold a figure but no table and the text holds a pipe table: the
\* table comes from the text, the figure from the blocks.
C15_Witness ==
    /\ tables # None /\ figures # None
    /\ Len(tables.items) = 1 /\ tables.items[1].content[1] = "lines"
    /\ tables.items[1].rows = 1
    /\ Len(figures.items) = 2 /\ figures.items[1].content[1] = "block"

\* The heading lines of the text: its lines of 1..6 markers, white space and a
\* title, in document order.
HeadingLines == SelectSeq(Indices(section_text),
                          LAMBDA i : section_text[i].kind = "heading")

\* C16: parse_sections returns one section per heading line of level 1-6, in
\* document order, whose level is the number of markers of that line, whose
\* title is its title and whose content is the trimmed text between that line
\* and the next heading line, or the end of the text for the last one.
C16_OneSectionPerHeading ==
    sections # None =>
        /\ Len(sections.items) = Len(HeadingLines)
        /\ \A i \in 1..Len(sections.items) :
               i <= Len(HeadingLines) =>
                   /\ sections.items[i].level = section_text[HeadingLines[i]].level
                   /\ sections.items[i].title = <<HeadingLines[i], "title">>
                   /\ sections.items[i].content =
                          Strip(section_text, HeadingLines[i] + 1,
                                IF i + 1 <= Len(HeadingLines)
                                THEN HeadingLines[i + 1] - 1
                                ELSE Len(section_text))

\* The Scoring response has fewer than three parts or one of its first three
\* parts is not a number.
Unparseable(parts) ==
    \/ Len(parts) < 3
    \/ \E k \in 1..3 : parts[k].kind # "number"

NodesRun == [i \in 1..Len(wf_trace) |-> wf_trace[i].node]

\* C17: when the Scoring node's response cannot be parsed into three numbers
\* (fewer than three parts, or a part that is not a number) the node stores 2.5
\* for all three dimensions and the workflow goes on to Composition; the
\* failure never raises, and a review that completes has overall_score =
\* compute_final_score(2.5, 2.5, 2.5) = 5.1853.
C17_ParseFailureDefaults ==
    (wf_response # None /\ Unparseable(wf_response.parts)) =>
        /\ NodesRun[Len(NodesRun)] \in {"scoring", "review_composition"}
        /\ wf_state.scores = [soundness |-> (5 * Den) \div 2,
                              presentation |-> (5 * Den) \div 2,
                              contribution |-> (5 * Den) \div 2]
        /\ wf_pc = "raised" => wf_node = "review_composition"
        /\ wf_pc = "done" =>
               /\ wf_result.kind = "PeerReview"
               /\ wf_result.review.overall_score = 51853 * Den
               /\ NodesRun[Len(NodesRun)] = "review_composition"

\* The response "4, n/a" was defaulted and the review completed.
C17_Witness ==
    /\ wf_pc = "done"
    /\ wf_response = [parts |-> <<Number(4 * Den), NotANumber>>]
    /\ wf_result.review.overall_score = 51853 * Den

ReviewNodeOrder ==
    <<"paper_intake", "query_generation", "related_work_search",
      "strength_identification", "weakness_analysis", "scoring", "review_composition">>

C19_FirstMatchWins ==
    source_type # None =>
        LET arxiv == source.arxiv_abs \/ source.arxiv_pdf \/ source.arxiv_bare
        IN  /\ source.local_pdf => source_type = Returns("PDF_FILE")
            /\ ~source.local_pdf /\ arxiv => source_type = Returns("ARXIV_ID")
            /\ ~source.local_pdf /\ ~arxiv /\ source.doi => source_type = Returns("DOI")
            /\ ~source.local_pdf /\ ~arxiv /\ ~source.doi /\ source.http =>
                   source_type = Returns("PDF_URL")
            /\ source = NoSource => source_type = Raises("InputError")
            /\ source_type = Raises("InputError") => source = NoSource

\* https://arxiv.org/abs/2401.12345 was detected as an arXiv id.
C19_Witness ==
    /\ source_type = Returns("ARXIV_ID")
    /\ source.http /\ source.arxiv_abs
    /\ ~source.local_pdf /\ ~source.arxiv_pdf /\ ~source.doi

\* C20: fetch_url makes at most max_retries HTTP attempts whatever the server
\* does; it returns the downloaded file's path on the first attempt answered
\* with 200 and makes no attempt after it; once max_retries attempts have
\* failed with client errors it raises InputError; it never goes on beyond
\* the ceiling.
C20_BoundedRetry ==
    input_call = "fetch_url" =>
        /\ Len(http_log) <= max_retries
        /\ attempt <= max_retries
        /\ \A i \in 1..Len(http_log) : http_log[i] = "200" => i = Len(http_log)
        /\ (http_log # <<>> /\ http_log[Len(http_log)] = "200") =>
               /\ fetch_pc = "done"
               /\ fetch_result = Returns(OutputFile(url, filename))
        /\ fetch_pc = "done" => http_log # <<>> /\ http_log[Len(http_log)] = "200"
        /\ (Len(http_log) = max_retries /\ \A i \in 1..Len(http_log) : http_log[i] = "ClientError")
               => \/ fetch_result = Raises("InputError")
                  \/ fetch_pc = "loop" /\ max_retries = 0
        /\ fetch_pc = "loop" => ENABLED NextInput

\* Two client errors and then a 200: the path is returned after three attempts.
C20_Witness ==
    /\ input_call = "fetch_url"
    /\ max_retries = 3
    /\ http_log = <<"ClientError", "ClientError", "200">>
    /\ fetch_pc = "done"

\* The lines of the text that are a References/Bibliography/Works Cited heading.
RefHeadingLines(lines) == {i \in DOMAIN lines : lines[i] = "ref_heading"}

\* C21: every Reference returned was taken from a line that follows a
\* References/Bibliography/Works Cited heading, and a text without such a
\* heading gives the empty list (the call returns, it does not raise).
C21_ReferencesOnlyInRegion ==
    references # None =>
        /\ \A k \in DOMAIN references.items :
               \E h \in RefHeadingLines(reference_text) :
                   h < references.items[k].text.line
        /\ RefHeadingLines(reference_text) = {} => references.items = <<>>

\* An entry before the heading is dropped and the one after it is returned.
C21_Witness ==
    /\ references # None
    /\ Len(reference_text) >= 3
    /\ reference_text[1] = "bracketed"
    /\ reference_text[2] = "ref_heading"
    /\ reference_text[3] \in {"numbered", "apa"}
    /\ Len(references.items) = 1
    /\ references.items[1].text.line = 3

\* Every location a _run_one task for dtype can write: the subdirectory handed
\* to the diagram service, the standard path the image is copied to, and the
\* path the fallback saves at.
TaskLocations(dtype) ==
    {SubDir(dtype)} \cup UNION {RunPipeline(dtype, o).written : o \in ServiceOutcomes}

\* The tasks of the gather that have started.
StartedTasks ==
    IF entry = "generate" /\ pc = "gather"
    THEN {i \in DOMAIN diagram_types : task[i] # "created"}
    ELSE {}

\* C22: two tasks of one generate call that run for distinct diagram types
\* share no output location: the service directory, the copy target and the
\* fallback path of one all differ from those of the other.
C22_DistinctOutputLocations ==
    \A i, j \in StartedTasks :
        (/\ diagram_types[i] # diagram_types[j]
         /\ IsKnownType(diagram_types[i])
         /\ IsKnownType(diagram_types[j]))
        => TaskLocations(diagram_types[i]) \cap TaskLocations(diagram_types[j]) = {}

\* Two tasks for distinct known types are both suspended in the diagram service.
C22_Witness ==
    /\ entry = "generate" /\ pc = "gather"
    /\ Len(diagram_types) = 2
    /\ diagram_types[1] # diagram_types[2]
    /\ \A i \in 1..2 : IsKnownType(diagram_types[i]) /\ task[i] = "awaiting"

\* C23: every dimension score of a PeerReview returned by review lies in
\* [1, 4], whatever the Scoring node's LLM answered.
C23_DimensionScoresInRange ==
    (wf_result # None /\ wf_result.kind = "PeerReview") =>
        \A d \in {"soundness", "presentation", "contribution"} :
            /\ wf_result.review.dimensions[d] >= Den
            /\ wf_result.review.dimensions[d] <= 4 * Den

\* The outputs save_all writes for every report.
StandardOutputs ==
    {<<"report.md">>, <<"key_points.md">>, <<"spec_output.md">>, <<"report.html">>,
     <<"metadata.json">>}

\* C24: save_all writes storm_report.md, holding exactly report.storm_report,
\* if and only if report.storm_report is a non-empty string, and writes
\* report.md, key_points.md, spec_output.md, report.html and metadata.json in
\* either case.
C24_StormReportSaved ==
    save_files # None =>
        LET written == save_files.written
            article == save_report.storm_report
        IN  /\ (<<"storm_report.md">> \in DOMAIN written) <=> (article \notin {NoText, ""})
            /\ <<"storm_report.md">> \in DOMAIN written =>
                   written[<<"storm_report.md">>] = [text |-> article]
            /\ StandardOutputs \subseteq DOMAIN written

\* C25: forward returns at most k results, for a single query string and for
\* a list of queries, with and without exclude_urls.
C25_AtMostK ==
    forward_results # None => Len(forward_results.items) <= rm_k

\* C26: with a non-empty abstract, a non-empty methodology or results summary
\* returned by the cascade, from whichever tier, never starts with the same
\* 200 characters as the abstract.
C26_SummaryDiffersFromAbstract ==
    (/\ summary # None
     /\ summary_content.abstract # EmptyText
     /\ summary.text # EmptyText)
    => First200(summary.text) # First200(summary_content.abstract)

\* C27: in fetch_url a response with a status other than 200 is never
\* retried: it is the last attempt, made as attempt n it leaves exactly n
\* attempts made, InputError raised and no file written, and every attempt
\* that was followed by another one failed with an aiohttp client error.
C27_StatusNotRetried ==
    input_call = "fetch_url" =>
        /\ \A i \in 1..Len(http_log) :
               http_log[i] = "status" =>
                   /\ i = Len(http_log)
                   /\ attempt = i - 1
                   /\ fetch_pc = "raised"
                   /\ fetch_result = Raises("InputError")
                   /\ downloads = {}
        /\ \A i \in 1..(Len(http_log) - 1) : http_log[i] = "ClientError"

\* A client error is retried and the second attempt is answered with a status
\* other than 200, with attempts left.
C27_Witness ==
    /\ input_call = "fetch_url"
    /\ max_retries = 3
    /\ http_log = <<"ClientError", "status">>
    /\ fetch_pc = "raised"
    /\ downloads = {}

\* The moves of a job's status the lifecycle allows.
StatusMoves ==
    {<<"queued", "processing">>, <<"processing", "completed">>, <<"processing", "failed">>}

\* C28: under any interleaving of jobs, a job's entry is created as queued, its
\* status only moves queued -> processing -> completed or failed and stays
\* there; a completed job has its report and no error, a failed job has its
\* error and no report; and a step changes the entry of the one job whose
\* background task (or POST) took it.
C28_JobStatusLifecycle ==
    [][\A j \in JobIds :
          LET old == jobs[j]
              new == jobs'[j]
          IN  /\ (old = None /\ new # old) => new = QueuedJob
              /\ (old # None /\ new # old) =>
                     /\ new # None
                     /\ <<old.status, new.status>> \in StatusMoves
              /\ (old # None /\ old.status \in {"completed", "failed"}) => new = old
              /\ (new # None /\ new.status = "completed") =>
                     new.report # None /\ new.error = None
              /\ (new # None /\ new.status = "failed") =>
                     new.error # None /\ new.report = None
              /\ new # old =>
                     /\ job_task'[j] # job_task[j]
                     /\ \A k \in JobIds \ {j} : jobs'[k] = jobs[k] /\ job_task'[k] = job_task[k]
      ]_vars

\* Two jobs ran to their ends in one behaviour, one failed and the other
\* completed, and the GET of the completed one shows its report.
C28_Witness ==
    /\ jobs[1] # None /\ jobs[1].status = "failed"
    /\ jobs[2] # None /\ jobs[2].status = "completed"
    /\ job_task = [j \in JobIds |-> IF j <= 2 THEN "ended" ELSE job_task[j]]
    /\ job_response # None
    /\ job_response = [job_id |-> 2, status |-> "completed",
                       report |-> [json |-> "report.to_json()"], error |-> None]

\* The (100, "Analysis complete!") event is in the log.
HasCompleteEvent(log) ==
    \E i \in DOMAIN log : log[i].pct = 100 /\ log[i].msg = "Analysis complete!"

TableLines(t) == t.content[2]..t.content[3]

\* C30: the table scanner's loop terminates: every iteration moves the line
\* index strictly forward (a candidate by its run of at least one line, any
\* other line by one), the index never passes the end by more than one and
\* the loop can always go on until it returns; no line is collected into a
\* candidate twice, so the returned Tables share no line, and their ids are
\* table_001 .. table_n in document order.
C30_ScannerTerminates ==
    /\ [](scan_pc = "loop" => ENABLED NextScan)
    /\ [][scan_pc = "loop" =>
             /\ scan_pc' = "loop" =>
                    /\ scan_i' > scan_i
                    /\ scan_iterations' = scan_iterations + 1
             /\ scan_i' <= Len(scan_lines) + 1
             /\ scan_iterations' <= Len(scan_lines)
             /\ \A k \in DOMAIN scan_lines : scan_examined'[k] <= 1
             /\ \A a, b \in DOMAIN scan_tables' :
                    a < b => /\ TableLines(scan_tables'[a]) \cap TableLines(scan_tables'[b]) = {}
                             /\ scan_tables'[a].content[3] < scan_tables'[b].content[2]
             /\ \A a \in DOMAIN scan_tables' : scan_tables'[a].id = TableId(a)
             /\ scan_pc' = "done" =>
                    scan_tables' = extract_tables_from_markdown(scan_lines)
         ]_vars

\* Two tables separated by one line were returned, after three iterations.
C30_Witness ==
    /\ scan_pc = "done"
    /\ Len(scan_lines) = 7
    /\ Len(scan_tables) = 2
    /\ scan_tables[2].id = TableId(2)
    /\ scan_iterations = 3

====
